---- MODULE Spec2Model ----
(***************************************************************************)
(* Model of the vipu net-worth backend: the snapshot store with its        *)
(* derived totals (routes/networth.py, models.py), the trend and forecast  *)
(* functions (forecasting.py) and the goal-progress calculation            *)
(* (routes/goals.py).                                                      *)
(*                                                                         *)
(* Money is counted in integer cents.  A quotient the code keeps as a      *)
(* Decimal or float (an average, a percentage) is kept as an exact         *)
(* fraction [num, den] with den > 0, and round(x, 2) is modelled by Round.  *)
(***************************************************************************)
EXTENDS Integers, Sequences, FiniteSets, TLC

\* ------------------------------------------------------------------ bounds
MaxSnapshotId == 2
MaxCatalogEdits == 1
MaxHistory == 5
MaxGoalHistory == 3
MaxMigrations == 3

\* ------------------------------------------------------------- input sets
GroupIds == {1, 2}
GoalIds == {1}
CategoryIds == {1, 2}
GroupEdits == {<<"asset", "Cash">>, <<"liability", "Loans">>}
Dates == {<<2023, 12>>, <<2024, 1>>, <<2024, 2>>}
DateInputs == Dates \cup {<<2024, 13>>}
CatalogDates == {<<2024, 1>>, <<2024, 2>>}
EntryInputs == {[category_id |-> 1, amount |-> 2], [category_id |-> 2, amount |-> -1]}
\* the entries of a request: up to two of them, so with repeated categories
EntryLists == UNION {[1..n -> EntryInputs] : n \in 0..Cardinality(EntryInputs)}
\* the histories the forecast and goal calculations are applied to: up to
\* MaxHistory of the MaxHistory + 1 successive months from October 2023 on
\* (so with gaps and across the year boundary), any of these net worths in
\* each
FirstHistoryMonth == <<2023, 10>>
NetWorthInputs == {-1, 2}
MonthlyInputs == {-3, -1, 2}
PeriodInputs == {"month", "quarter", "half_year", "year", "week"}
MonthsAheadInputs == {0, 14, 37}
TargetInputs == {-1, 0, 2}
ForecastTargetInputs == {0, 7, 8, 29}
RateTargetInputs == {5000, 15000}
TargetDateInputs == {<<2023, 11>>, <<2024, 3>>}
StartingInputs == {-1, 3}
TrackingInputs == {"month", "quarter"}
DebtInputs == {2, 3}
PaydownTargetInputs == {0, 1, 2}
\* an optional request field is a set: {} when absent, {v} when present
Opt(S) == {{}} \cup {{v} : v \in S}

The(o) == CHOOSE v \in o : TRUE

\* the default tax percentage without a settings row, in hundredths of a percent
DEFAULT_TAX_PERCENTAGE == 2500
\* the settings rows and income items tried: a taxed salary with and without a
\* rate of its own, an untaxed benefit, a deduction with and without a rate
SettingsInputs == Opt({[tax_percentage |-> 5000]})
IncomeInputs ==
    {[gross_amount |-> 4, is_taxed |-> TRUE, tax_percentage |-> {}, is_deduction |-> FALSE],
     [gross_amount |-> 4, is_taxed |-> TRUE, tax_percentage |-> {5000}, is_deduction |-> FALSE],
     [gross_amount |-> 4, is_taxed |-> FALSE, tax_percentage |-> {}, is_deduction |-> FALSE],
     [gross_amount |-> 4, is_taxed |-> TRUE, tax_percentage |-> {7500}, is_deduction |-> TRUE],
     [gross_amount |-> 4, is_taxed |-> TRUE, tax_percentage |-> {}, is_deduction |-> TRUE]}
\* no item, one item, or an untaxed benefit followed by one item
IncomeLists ==
    {<<>>} \cup {<<i>> : i \in IncomeInputs}
    \cup {<<[gross_amount |-> 4, is_taxed |-> FALSE, tax_percentage |-> {},
             is_deduction |-> FALSE], i>> : i \in IncomeInputs}

VARIABLES groups, categories, snapshots, nextSnapshotId, goals, settings,
          income_items, catalogEdits, resp,
          dialect, MIGRATIONS, _migrations, schema, sessions

vars == <<groups, categories, snapshots, nextSnapshotId, goals, settings,
          income_items, catalogEdits, resp,
          dialect, MIGRATIONS, _migrations, schema, sessions>>

\* what the migrations read and write: the dialect of the engine, the list
\* MIGRATIONS of the release, the ids recorded in the table _migrations, and
\* the migrations whose SQL was committed, in the order of the commits
database == <<dialect, MIGRATIONS, _migrations, schema>>

\* the database of a new installation of a release whose list is released,
\* with no request under way: sessions holds, for each request that is
\* executed step by step, its body, its position and what its session has
\* written and not committed
FreshDatabase(engine, released) ==
    /\ dialect = engine
    /\ MIGRATIONS = released
    /\ _migrations = {}
    /\ schema = <<>>
    /\ sessions = <<>>

\* ---------------------------------------------------------------- helpers
Min(a, b) == IF a < b THEN a ELSE b

Abs(x) == IF x < 0 THEN -x ELSE x

RECURSIVE SumSeq(_)
SumSeq(s) == IF s = <<>> THEN 0 ELSE Head(s) + SumSeq(Tail(s))

Put(f, k, v) == [x \in DOMAIN f \cup {k} |-> IF x = k THEN v ELSE f[x]]

Drop(f, k) == [x \in DOMAIN f \ {k} |-> f[x]]

\* the quotient num / den, den > 0, kept exact
Frac(num, den) == [num |-> num, den |-> den]

\* round(x, 2) of x = num / den cents: the nearest whole cent.  The code
\* rounds a float, so a value halfway between two cents goes to whichever
\* side its binary approximation lies on: up decides it.
Round(num, den, up) ==
    LET q == num \div den
        r == num % den
    IN IF 2 * r < den THEN q
       ELSE IF 2 * r > den THEN q + 1
       ELSE IF up THEN q + 1 ELSE q

RECURSIVE Gcd(_, _)
Gcd(a, b) == IF b = 0 THEN a ELSE Gcd(b, a % b)

\* the same quotient in lowest terms
Reduce(f) ==
    LET g == Gcd(Abs(f.num), f.den)
    IN Frac(f.num \div g, f.den \div g)

\* a <= b for quotients
FracLe(a, b) == a.num * b.den <= b.num * a.den

Response(op, status, id) == [op |-> op, status |-> status, id |-> id]

\* the answer to a request that was refused: an error status and no change
Rejected(status) == Response("rejected", status, 0)

\* -------------------------------------------------- models.py: the totals
GroupOf(cat) == groups[categories[cat].group_id]

\* the branch of calculate_totals an entry takes
IsAsset(cat) == GroupOf(cat).group_type = "asset"

\* an entry adds to personal_wealth in either branch when its category is
\* personal
CountsAsPersonal(cat) == categories[cat].is_personal

\* faulty variant: liabilities of a company category count toward company_wealth too
CountsAsCompanyAnyKind(cat) == ~categories[cat].is_personal

\* an entry adds to company_wealth only in the asset branch
CountsAsCompany(cat) == IsAsset(cat) /\ ~categories[cat].is_personal

\* the sum of the amounts of the entries whose category is one of counted
Total(entries, counted) ==
    SumSeq([k \in DOMAIN entries |->
              IF entries[k].category_id \in counted THEN entries[k].amount ELSE 0])

IsLiability(cat) == ~IsAsset(cat)

NetWorthOf(total_assets, total_liabilities) == total_assets + total_liabilities

\* change_from_previous; prev is {} for None and {n} for a known net worth
ChangeFrom(net_worth, prev) ==
    IF prev # {} THEN net_worth - (CHOOSE p \in prev : TRUE) ELSE 0

\* NetWorthSnapshot.calculate_totals: one pass over the entries, then
\* net_worth and change_from_previous
calculate_totals(snap, prev) ==
    LET cats == DOMAIN categories
        assets == Total(snap.entries, {c \in cats : IsAsset(c)})
        liabs == Total(snap.entries, {c \in cats : IsLiability(c)})
        nw == NetWorthOf(assets, liabs)
    IN [snap EXCEPT !.total_assets = assets,
                    !.total_liabilities = liabs,
                    !.personal_wealth =
                        Total(snap.entries, {c \in cats : CountsAsPersonal(c)}),
                    !.company_wealth =
                        Total(snap.entries, {c \in cats : CountsAsCompany(c)}),
                    !.net_worth = nw,
                    !.change_from_previous = ChangeFrom(nw, prev)]

NewSnapshot(year, month) ==
    [year |-> year, month |-> month, entries |-> <<>>,
     total_assets |-> 0, total_liabilities |-> 0, net_worth |-> 0,
     change_from_previous |-> 0, personal_wealth |-> 0, company_wealth |-> 0]

\* NetWorthSnapshot.to_dict, by_group: the asset entries are totalled per
\* group id in entry order, and the result is keyed by group NAME, so that of
\* two asset groups with one name the later one overwrites the earlier.
AssetGroupIds(snap) ==
    {categories[snap.entries[k].category_id].group_id :
        k \in {j \in DOMAIN snap.entries : IsAsset(snap.entries[j].category_id)}}

GroupTotal(snap, gid) ==
    SumSeq([k \in DOMAIN snap.entries |->
              IF IsAsset(snap.entries[k].category_id)
                 /\ categories[snap.entries[k].category_id].group_id = gid
              THEN snap.entries[k].amount ELSE 0])

\* where a group first appears among the entries: its place in the dict
FirstEntryOf(snap, gid) ==
    CHOOSE k \in DOMAIN snap.entries :
        /\ categories[snap.entries[k].category_id].group_id = gid
        /\ \A j \in 1..(k - 1) : categories[snap.entries[j].category_id].group_id # gid

by_group(snap) ==
    LET gids == AssetGroupIds(snap)
        names == {groups[g].name : g \in gids}
        last(n) == CHOOSE g \in gids :
                     /\ groups[g].name = n
                     /\ \A h \in gids : groups[h].name = n =>
                            FirstEntryOf(snap, h) <= FirstEntryOf(snap, g)
    IN [n \in names |-> GroupTotal(snap, last(n))]

\* ------------------------------------- routes/networth.py: snapshot helpers
SnapshotIdsAt(snaps, year, month) ==
    {i \in DOMAIN snaps : snaps[i].year = year /\ snaps[i].month = month}

\* faulty variant: the duplicate check is missing
OccupiedNever(year, month, self) == FALSE

\* the duplicate check of create_snapshot (self = 0) and of update_snapshot
\* (self = the snapshot being moved)
Occupied(year, month, self) ==
    SnapshotIdsAt(snapshots, year, month) \ {self} # {}

PrevDate(year, month) ==
    IF month = 1 THEN <<year - 1, 12>> ELSE <<year, month - 1>>

\* faulty variant: no carry into the next year after December
NextDateNoCarry(year, month) == <<year, month + 1>>

NextDate(year, month) ==
    IF month = 12 THEN <<year + 1, 1>> ELSE <<year, month + 1>>

\* _get_previous_net_worth: {} when the previous month has no snapshot
_get_previous_net_worth(snaps, year, month) ==
    LET p == PrevDate(year, month)
    IN {snaps[i].net_worth : i \in SnapshotIdsAt(snaps, p[1], p[2])}

\* _recalculate_next_month: recompute the successor, if any, against the
\* snapshot now stored for (year, month)
_recalculate_next_month(snaps, year, month) ==
    LET n == NextDate(year, month)
        nextIds == SnapshotIdsAt(snaps, n[1], n[2])
        cur == {snaps[i].net_worth : i \in SnapshotIdsAt(snaps, year, month)}
    IN [i \in DOMAIN snaps |->
          IF i \in nextIds THEN calculate_totals(snaps[i], cur) ELSE snaps[i]]

\* the month/year checks of _validate_snapshot_data (the amounts of
\* EntryInputs are all within MAX_AMOUNT_VALUE, so the amount check never
\* rejects)
ValidDate(year, month) ==
    month >= 1 /\ month <= 12 /\ year >= 1900 /\ year <= 2100

\* faulty variant: no unique constraint on (snapshot_id, category_id)
AddEntriesUnconstrained(entries, k, seen) ==
    IF \E i \in k..Len(entries) : entries[i].category_id \notin DOMAIN categories
    THEN 400 ELSE 0

\* The loop that adds the entries of a request.  It returns the status the
\* loop ends with: 400 at the first entry naming an unknown category, 500
\* when the unique constraint (snapshot_id, category_id) rejects a flush,
\* 0 when every entry was added.
RECURSIVE AddEntries(_, _, _)
AddEntries(entries, k, seen) ==
    IF k > Len(entries) THEN 0
    ELSE IF entries[k].category_id \notin DOMAIN categories THEN 400
    ELSE IF entries[k].category_id \in seen THEN 500
    ELSE AddEntries(entries, k + 1, seen \cup {entries[k].category_id})

\* --------------------------------------------------------------- snapshots
\* faulty variant: what the request had written so far is kept
KeepPending(committed, pending) == pending

\* the end of a request that did not commit: session.rollback() in the
\* handler or Session.remove() in the teardown discards what the session
\* had written (pending) and the store stays as committed
shutdown_session(committed, pending) == committed

create_snapshot(year, month, entries) ==
    /\ nextSnapshotId <= MaxSnapshotId
    /\ LET st == AddEntries(entries, 1, {})
           id == nextSnapshotId
           snap == [NewSnapshot(year, month) EXCEPT !.entries = entries]
           added == Put(snapshots, id, snap)
           done == Put(snapshots, id,
                       calculate_totals(snap, _get_previous_net_worth(added, year, month)))
       IN IF ~ValidDate(year, month)
          THEN /\ resp' = Rejected(400)
               /\ UNCHANGED <<snapshots, nextSnapshotId>>
          ELSE IF Occupied(year, month, 0)
          THEN /\ resp' = Rejected(409)
               /\ UNCHANGED <<snapshots, nextSnapshotId>>
          ELSE IF st # 0
          THEN /\ resp' = Rejected(st)
               /\ snapshots' = shutdown_session(snapshots, added)
               /\ UNCHANGED nextSnapshotId
          ELSE /\ snapshots' = done
               /\ nextSnapshotId' = nextSnapshotId + 1
               /\ resp' = Response("create_snapshot", 201, id)
    /\ UNCHANGED <<groups, categories, catalogEdits, goals, settings, database, sessions,
                 income_items>>

\* date is an optional <<year, month>>, entries an optional list
update_snapshot(id, date, entries) ==
    /\ IF id \notin DOMAIN snapshots
       THEN /\ resp' = Rejected(404)
            /\ UNCHANGED snapshots
       ELSE IF date = {} /\ entries = {}
       THEN /\ resp' = Rejected(400)
            /\ UNCHANGED snapshots
       ELSE
         LET old == snapshots[id]
             new_year == IF date = {} THEN old.year ELSE The(date)[1]
             new_month == IF date = {} THEN old.month ELSE The(date)[2]
             changed == new_month # old.month \/ new_year # old.year
             moved == [old EXCEPT !.year = new_year, !.month = new_month]
             st == IF entries = {} THEN 0 ELSE AddEntries(The(entries), 1, {})
             withEntries == IF entries = {} THEN moved
                            ELSE [moved EXCEPT !.entries = The(entries)]
             s1 == Put(snapshots, id, withEntries)
             s2 == Put(s1, id, calculate_totals(withEntries,
                          _get_previous_net_worth(s1, new_year, new_month)))
             s3 == _recalculate_next_month(s2, new_year, new_month)
         IN IF changed /\ (new_month < 1 \/ new_month > 12)
            THEN /\ resp' = Rejected(400)
                 /\ UNCHANGED snapshots
            ELSE IF changed /\ Occupied(new_year, new_month, id)
            THEN /\ resp' = Rejected(409)
                 /\ UNCHANGED snapshots
            ELSE IF st # 0
            THEN /\ resp' = Rejected(st)
                 /\ snapshots' = shutdown_session(snapshots, s1)
            ELSE /\ snapshots' = s3
                 /\ resp' = [op |-> "update_snapshot", status |-> 200, id |-> id,
                             replaced |-> entries # {}]
    /\ UNCHANGED <<groups, categories, nextSnapshotId, catalogEdits, goals, settings, database, sessions,
                 income_items>>

delete_snapshot(id) ==
    /\ IF id \notin DOMAIN snapshots
       THEN /\ resp' = Rejected(404)
            /\ UNCHANGED snapshots
       ELSE /\ snapshots' = Drop(snapshots, id)
            /\ resp' = Response("delete_snapshot", 200, id)
    /\ UNCHANGED <<groups, categories, nextSnapshotId, catalogEdits, goals, settings, database, sessions,
                 income_items>>

\* ------------------------------------- two requests as separate transactions
\* Each request has its own session (scoped_session) and its own
\* transaction.  Under PostgreSQL's default isolation, READ COMMITTED, a
\* query sees the rows committed by then with the session's own uncommitted
\* rows over them, and a read waits for no lock.
Visible(name) ==
    [i \in DOMAIN snapshots \cup DOMAIN sessions[name].written |->
        IF i \in DOMAIN sessions[name].written THEN sessions[name].written[i]
        ELSE snapshots[i]]

\* the session after a step: at position pc, having written the rows
AtStep(name, pc, id, written) ==
    [sessions EXCEPT ![name].pc = pc, ![name].id = id, ![name].written = written]

\* session.commit(): the rows the session wrote become the stored rows
Committed(name) == Visible(name)

\* update_snapshot up to its own totals: the entries are replaced and
\* flushed and the snapshot's totals calculated against the month before
update_snapshot_entries ==
    /\ sessions # <<>> /\ sessions.update.pc = "start"
    /\ LET id == sessions.update.id
           entries == sessions.update.entries
           st == AddEntries(entries, 1, {})
       IN IF id \notin DOMAIN snapshots
          THEN /\ resp' = Rejected(404)
               /\ sessions' = AtStep("update", "refused", id, <<>>)
          ELSE IF st # 0
          THEN /\ resp' = Rejected(st)
               /\ sessions' = AtStep("update", "refused", id, <<>>)
          ELSE LET row == [snapshots[id] EXCEPT !.entries = entries]
                   view == Put(Visible("update"), id, row)
               IN /\ sessions' = AtStep("update", "recalculate", id,
                        Put(<<>>, id, calculate_totals(row,
                               _get_previous_net_worth(view, row.year, row.month))))
                  /\ UNCHANGED resp
    /\ UNCHANGED <<groups, categories, snapshots, nextSnapshotId, goals, settings,
                   database, income_items, catalogEdits>>

\* _recalculate_next_month as update_snapshot calls it: the snapshot of the
\* next month, if the session sees one, is recalculated
update_snapshot_recalculate ==
    /\ sessions # <<>> /\ sessions.update.pc = "recalculate"
    /\ LET id == sessions.update.id
           view == Visible("update")
           n == NextDate(view[id].year, view[id].month)
           after == _recalculate_next_month(view, view[id].year, view[id].month)
       IN sessions' = AtStep("update", "commit", id,
                 [i \in DOMAIN sessions.update.written \cup SnapshotIdsAt(view, n[1], n[2])
                     |-> after[i]])
    /\ UNCHANGED <<groups, categories, snapshots, nextSnapshotId, goals, settings,
                   database, income_items, catalogEdits, resp>>

update_snapshot_commit ==
    /\ sessions # <<>> /\ sessions.update.pc = "commit"
    /\ snapshots' = Committed("update")
    /\ sessions' = AtStep("update", "done", sessions.update.id, <<>>)
    /\ resp' = [op |-> "update_snapshot", status |-> 200, id |-> sessions.update.id,
                replaced |-> TRUE]
    /\ UNCHANGED <<groups, categories, nextSnapshotId, goals, settings, database,
                   income_items, catalogEdits>>

\* create_snapshot up to the flush of its entries: the duplicate check, the
\* new row, whose id the sequence hands out at once, and the entries
create_snapshot_insert ==
    /\ sessions # <<>> /\ sessions.create.pc = "start"
    /\ LET year == sessions.create.date[1]
           month == sessions.create.date[2]
           entries == sessions.create.entries
           st == AddEntries(entries, 1, {})
           id == nextSnapshotId
       IN IF ~ValidDate(year, month)
          THEN /\ resp' = Rejected(400)
               /\ sessions' = AtStep("create", "refused", 0, <<>>)
               /\ UNCHANGED nextSnapshotId
          ELSE IF Occupied(year, month, 0)
          THEN /\ resp' = Rejected(409)
               /\ sessions' = AtStep("create", "refused", 0, <<>>)
               /\ UNCHANGED nextSnapshotId
          ELSE IF st # 0
          THEN /\ resp' = Rejected(st)
               /\ sessions' = AtStep("create", "refused", 0, <<>>)
               /\ nextSnapshotId' = nextSnapshotId + 1
          ELSE /\ sessions' = AtStep("create", "totals", id,
                      Put(<<>>, id, [NewSnapshot(year, month) EXCEPT !.entries = entries]))
               /\ nextSnapshotId' = nextSnapshotId + 1
               /\ UNCHANGED resp
    /\ UNCHANGED <<groups, categories, snapshots, goals, settings, database,
                   income_items, catalogEdits>>

\* the net worth of the month before is read and the totals calculated
create_snapshot_totals ==
    /\ sessions # <<>> /\ sessions.create.pc = "totals"
    /\ LET id == sessions.create.id
           view == Visible("create")
       IN sessions' = AtStep("create", "commit", id,
                 Put(<<>>, id, calculate_totals(view[id],
                        _get_previous_net_worth(view, view[id].year, view[id].month))))
    /\ UNCHANGED <<groups, categories, snapshots, nextSnapshotId, goals, settings,
                   database, income_items, catalogEdits, resp>>

create_snapshot_commit ==
    /\ sessions # <<>> /\ sessions.create.pc = "commit"
    /\ snapshots' = Committed("create")
    /\ sessions' = AtStep("create", "done", sessions.create.id, <<>>)
    /\ resp' = Response("create_snapshot", 201, sessions.create.id)
    /\ UNCHANGED <<groups, categories, nextSnapshotId, goals, settings, database,
                   income_items, catalogEdits>>

\* ------------------------------------------------------ groups, categories
update_group(id, group_type, name) ==
    /\ catalogEdits < MaxCatalogEdits
    /\ catalogEdits' = catalogEdits + 1
    /\ id \in DOMAIN groups
    /\ groups' = [groups EXCEPT ![id] = [group_type |-> group_type, name |-> name]]
    /\ resp' = Response("update_group", 200, id)
    /\ UNCHANGED <<categories, snapshots, nextSnapshotId, goals, settings, database, sessions,
                 income_items>>

update_category(id, group_id, is_personal) ==
    /\ catalogEdits < MaxCatalogEdits
    /\ id \in DOMAIN categories
    /\ IF group_id \notin DOMAIN groups
       THEN /\ resp' = Rejected(400)
            /\ UNCHANGED <<categories, catalogEdits>>
       ELSE /\ categories' = [categories EXCEPT ![id] =
                                [group_id |-> group_id, is_personal |-> is_personal]]
            /\ catalogEdits' = catalogEdits + 1
            /\ resp' = Response("update_category", 200, id)
    /\ UNCHANGED <<groups, snapshots, nextSnapshotId, goals, settings, database, sessions,
                 income_items>>

\* POST /api/networth/categories.  The database assigns the id: one past
\* the largest stored id is what SQLite's rowid gives; PostgreSQL's sequence
\* differs only in never handing an id out again.
create_category(group_id, is_personal) ==
    /\ IF group_id \notin DOMAIN groups
       THEN /\ resp' = Rejected(400)
            /\ UNCHANGED categories
       ELSE LET id == IF DOMAIN categories = {} THEN 1
                      ELSE (CHOOSE c \in DOMAIN categories :
                                \A d \in DOMAIN categories : d <= c) + 1
            IN /\ id \in CategoryIds
               /\ categories' = Put(categories, id,
                                    [group_id |-> group_id, is_personal |-> is_personal])
               /\ resp' = Response("create_category", 201, id)
    /\ UNCHANGED <<groups, snapshots, nextSnapshotId, catalogEdits, goals, settings, database, sessions,
                 income_items>>

\* the goals whose category_id column refers to the category
GoalsOfCategory(category_id) ==
    {g \in DOMAIN goals : goals[g].category_id = {category_id}}

\* the number of entries the query of delete_category counts
entry_count(category_id) ==
    Cardinality({p \in UNION {{<<i, k>> : k \in DOMAIN snapshots[i].entries} :
                                 i \in DOMAIN snapshots} :
                   snapshots[p[1]].entries[p[2]].category_id = category_id})

\* whether the database enforces the foreign key of goals.category_id:
\* PostgreSQL does, SQLite as the application opens it does not
foreign_keys == dialect = "postgresql"

\* DELETE /api/networth/categories/<id>.  Only the entries are counted.  A
\* goal that refers to the category is left to the foreign key of
\* goals.category_id: where it is enforced the DELETE ends in an
\* IntegrityError, a 500 with nothing deleted.
delete_category(category_id) ==
    /\ IF category_id \notin DOMAIN categories
       THEN /\ resp' = Rejected(404)
            /\ UNCHANGED categories
       ELSE IF entry_count(category_id) > 0
       THEN /\ resp' = Rejected(409)
            /\ UNCHANGED categories
       ELSE IF foreign_keys /\ GoalsOfCategory(category_id) # {}
       THEN /\ resp' = Rejected(500)
            /\ UNCHANGED categories
       ELSE /\ categories' = Drop(categories, category_id)
            /\ resp' = Response("delete_category", 200, category_id)
    /\ UNCHANGED <<groups, snapshots, nextSnapshotId, catalogEdits, goals, settings, database, sessions,
                 income_items>>

\* POST /api/networth/reset: entries, snapshots, categories and groups are
\* deleted in this order and the goals are not touched; where the foreign
\* key of goals.category_id is enforced, the DELETE of the categories fails
\* while a goal refers to one, and nothing is committed
reset_networth ==
    /\ IF foreign_keys /\ \E g \in DOMAIN goals : goals[g].category_id \cap DOMAIN categories # {}
       THEN /\ resp' = Rejected(500)
            /\ UNCHANGED <<groups, categories, snapshots>>
       ELSE /\ snapshots' = <<>>
            /\ categories' = <<>>
            /\ groups' = <<>>
            /\ resp' = Response("reset_networth", 200, 0)
    /\ UNCHANGED <<nextSnapshotId, catalogEdits, goals, settings, database, sessions, income_items>>

\* ---------------------------------------------------------- forecasting.py
PERIOD_MONTHS(period) ==
    CASE period = "month" -> 1
      [] period = "quarter" -> 3
      [] period = "half_year" -> 6
      [] period = "year" -> 12
      [] OTHER -> 3

VALID_FORECAST_PERIODS == {"month", "quarter", "half_year", "year"}

MonthIndex(year, month) == year * 12 + month

\* the query of get_forecast: every snapshot, ordered by year and month,
\* newest first
RECURSIVE NewestFirst(_, _)
NewestFirst(snaps, ids) ==
    IF ids = {} THEN <<>>
    ELSE LET top == CHOOSE i \in ids : \A j \in ids :
                       MonthIndex(snaps[j].year, snaps[j].month)
                           <= MonthIndex(snaps[i].year, snaps[i].month)
         IN <<snaps[top]>> \o NewestFirst(snaps, ids \ {top})

\* the loop of calculate_monthly_change_rate after k iterations
RECURSIVE TotalChange(_, _)
TotalChange(hist, k) ==
    IF k = 0 THEN 0
    ELSE TotalChange(hist, k - 1) + (hist[k].net_worth - hist[k + 1].net_worth)

\* faulty variant: the total divided by the months asked for, not by the
\* number of changes summed
RateOverWholeWindow(hist, period) ==
    IF Len(hist) < 2 THEN [rate |-> Frac(0, 1), points |-> 0]
    ELSE LET changes_count == Min(PERIOD_MONTHS(period), Len(hist) - 1)
         IN [rate |-> Frac(TotalChange(hist, changes_count), PERIOD_MONTHS(period)),
             points |-> changes_count]

calculate_monthly_change_rate(hist, period) ==
    IF Len(hist) < 2 THEN [rate |-> Frac(0, 1), points |-> 0]
    ELSE LET changes_count == Min(PERIOD_MONTHS(period), Len(hist) - 1)
         IN IF changes_count = 0 THEN [rate |-> Frac(0, 1), points |-> 0]
            ELSE [rate |-> Frac(TotalChange(hist, changes_count), changes_count),
                  points |-> changes_count]

\* faulty variant: a single carry, right for at most twelve months ahead
CarryOnce(next_month, next_year) ==
    IF next_month > 12 THEN <<next_year + 1, next_month - 12>>
    ELSE <<next_year, next_month>>

\* the while loop that carries months past December into the year
RECURSIVE CarryMonths(_, _)
CarryMonths(next_month, next_year) ==
    IF next_month > 12 THEN CarryMonths(next_month - 12, next_year + 1)
    ELSE <<next_year, next_month>>

\* faulty variant: the projection built from the rate as it is reported
ProjectedFromRoundedRate(current_nw, monthly_rate, i, up) ==
    current_nw + Round(monthly_rate.num, monthly_rate.den, up) * i

\* round(current_nw + monthly_rate * i, 2)
ProjectedNetWorth(current_nw, monthly_rate, i, up) ==
    Round(current_nw * monthly_rate.den + monthly_rate.num * i, monthly_rate.den, up)

generate_net_worth_forecast(hist, period, months_ahead, up) ==
    LET trend == calculate_monthly_change_rate(hist, period)
        projections ==
            IF hist = <<>> THEN <<>>
            ELSE [i \in 1..months_ahead |->
                    LET next == CarryMonths(hist[1].month + i, hist[1].year)
                    IN [month |-> next[2],
                        year |-> next[1],
                        projected_net_worth |->
                            ProjectedNetWorth(hist[1].net_worth, trend.rate, i, up)]]
    IN [period |-> period,
        months_ahead |-> months_ahead,
        monthly_change_rate |-> Round(trend.rate.num, trend.rate.den, up),
        data_points_used |-> trend.points,
        projections |-> projections]

\* GET /api/networth/forecast.  The response is recorded with the value
\* calculate_monthly_change_rate returned while it was built.
get_forecast(period, months_ahead, up) ==
    /\ IF period \notin VALID_FORECAST_PERIODS
       THEN resp' = Rejected(400)
       ELSE IF months_ahead < 1 \/ months_ahead > 36
       THEN resp' = Rejected(400)
       ELSE LET hist == NewestFirst(snapshots, DOMAIN snapshots)
            IN resp' = [op |-> "get_forecast", status |-> 200, id |-> 0,
                        trend |-> calculate_monthly_change_rate(hist, period),
                        forecast |-> generate_net_worth_forecast(hist, period,
                                                                 months_ahead, up)]
    /\ UNCHANGED <<groups, categories, snapshots, nextSnapshotId, catalogEdits, goals, settings, database, sessions,
                 income_items>>

\* ---------------------------------------------------------- routes/goals.py
\* A goal is a record of goal_type, target_value, is_active and the optional
\* category_id, tracking_period, target_date and starting_value.  Amounts are in cents
\* and percentages in hundredths of a percent, as the columns store them.
TRACKING_PERIOD_MONTHS(period) ==
    CASE period = "month" -> 1
      [] period = "quarter" -> 3
      [] period = "half_year" -> 6
      [] period = "year" -> 12
      [] OTHER -> 1

_get_snapshots_in_period(snaps, num_months) ==
    LET all == NewestFirst(snaps, DOMAIN snaps)
    IN SubSeq(all, 1, Min(num_months + 1, Len(all)))

\* faulty variant: the magnitude of the amount
AmountMagnitude(snap, category_id) ==
    LET ks == {k \in DOMAIN snap.entries : snap.entries[k].category_id = category_id}
    IN IF ks = {} THEN 0
       ELSE Abs(snap.entries[CHOOSE k \in ks : \A j \in ks : k <= j].amount)

\* the amount of the first entry for the category, 0 without one
_get_category_amount_in_snapshot(snap, category_id) ==
    LET ks == {k \in DOMAIN snap.entries : snap.entries[k].category_id = category_id}
    IN IF ks = {} THEN 0
       ELSE snap.entries[CHOOSE k \in ks : \A j \in ks : k <= j].amount

\* the loop over the tracking period after k iterations
RECURSIVE CategoryChange(_, _, _)
CategoryChange(hist, category_id, k) ==
    IF k = 0 THEN 0
    ELSE CategoryChange(hist, category_id, k - 1)
           + (_get_category_amount_in_snapshot(hist[k], category_id)
                - _get_category_amount_in_snapshot(hist[k + 1], category_id))

\* goal.category and goal.category.group and its group_type == "liability"
GoalIsLiability(goal) ==
    /\ goal.category_id # {}
    /\ GroupOf(The(goal.category_id)).group_type = "liability"

\* faulty variant: a taxed item is taxed at its own rate when it has one
NetAtOwnRate(item, default_tax_percentage) ==
    IF item.is_deduction
    THEN Reduce(Frac(- item.gross_amount
                       * (IF item.tax_percentage # {} THEN The(item.tax_percentage) ELSE 0),
                     10000))
    ELSE IF ~item.is_taxed THEN Frac(item.gross_amount, 1)
    ELSE Reduce(Frac(item.gross_amount
                       * (10000 - (IF item.tax_percentage # {}
                                   THEN The(item.tax_percentage)
                                   ELSE default_tax_percentage)),
                     10000))

\* IncomeItem.calculate_net: a deduction takes its own rate off, an untaxed
\* item counts in full, a taxed item loses the default tax percentage
calculate_net(item, default_tax_percentage) ==
    IF item.is_deduction
    THEN Reduce(Frac(- item.gross_amount
                       * (IF item.tax_percentage # {} THEN The(item.tax_percentage) ELSE 0),
                     10000))
    ELSE IF ~item.is_taxed THEN Frac(item.gross_amount, 1)
    ELSE Reduce(Frac(item.gross_amount * (10000 - default_tax_percentage), 10000))

\* the loop over the income items after k of them
RECURSIVE NetIncomeOfFirst(_, _, _)
NetIncomeOfFirst(items, default_tax_pct, k) ==
    IF k = 0 THEN Frac(0, 1)
    ELSE LET total == NetIncomeOfFirst(items, default_tax_pct, k - 1)
             net == calculate_net(items[k], default_tax_pct)
         IN Reduce(Frac(total.num * net.den + net.num * total.den, total.den * net.den))

\* faulty variant: the net of the last item alone
NetOfLastItem(items, default_tax_pct) ==
    IF items = <<>> THEN Frac(0, 1)
    ELSE calculate_net(items[Len(items)], default_tax_pct)

_calculate_net_income(items, default_tax_pct) ==
    NetIncomeOfFirst(items, default_tax_pct, Len(items))

\* current_value by goal type
CurrentValue(goal, hist, net_income) ==
    LET tracked == Min(TRACKING_PERIOD_MONTHS(The(goal.tracking_period)), Len(hist) - 1)
    IN CASE goal.goal_type = "net_worth_target" ->
              IF hist # <<>> THEN Frac(hist[1].net_worth, 1) ELSE Frac(0, 1)
         [] goal.goal_type = "category_target" ->
              IF hist # <<>> /\ goal.category_id # {}
              THEN LET amount == _get_category_amount_in_snapshot(hist[1],
                                                                   The(goal.category_id))
                   IN Frac(IF GoalIsLiability(goal) THEN Abs(amount) ELSE amount, 1)
              ELSE Frac(0, 1)
         [] goal.goal_type = "category_monthly" ->
              IF goal.category_id # {} /\ goal.tracking_period # {} /\ Len(hist) >= 2
                 /\ tracked > 0
              THEN Frac(CategoryChange(hist, The(goal.category_id), tracked), tracked)
              ELSE Frac(0, 1)
         [] goal.goal_type = "category_rate" ->
              IF goal.category_id # {} /\ goal.tracking_period # {} /\ net_income.num > 0
                 /\ Len(hist) >= 2 /\ tracked > 0
              THEN Reduce(Frac(CategoryChange(hist, The(goal.category_id), tracked)
                                 * 10000 * net_income.den,
                               tracked * net_income.num))
              ELSE Frac(0, 1)
         [] OTHER -> Frac(0, 1)

\* ------------------------------------------ forecasting.py: the goal forecast
\* _calculate_category_change_rate over the quarter: the mean change of the
\* category's amount between neighbours of the newest-first list
_calculate_category_change_rate(hist, category_id) ==
    IF Len(hist) < 2 THEN Frac(0, 1)
    ELSE LET changes_count == Min(PERIOD_MONTHS("quarter"), Len(hist) - 1)
         IN IF changes_count = 0 THEN Frac(0, 1)
            ELSE Frac(CategoryChange(hist, category_id, changes_count), changes_count)

\* faulty variant: two months past the whole quotient
MonthsPastQuotient(remaining, rate, low) ==
    ((remaining.num * rate.den) \div (remaining.den * rate.num)) + 2

\* int(remaining / rate) + 1 for remaining > 0 and rate > 0.  The code
\* divides floats: a quotient that is a whole number in decimal arithmetic
\* can come out just below it ((0.3 - 0.1) / 0.1 is 1.9999999999999998), and
\* int() then gives one less; low says that it did.
MonthsUntil(remaining, rate, low) ==
    LET n == remaining.num * rate.den
        d == remaining.den * rate.num
    IN IF n % d = 0 /\ low THEN n \div d ELSE (n \div d) + 1

\* a >= b between floats: values equal in decimal arithmetic compare
\* either way, low says that a came out below b
FloatGe(a, b, low) ==
    IF a.num * b.den = b.num * a.den THEN ~low ELSE FracLe(b, a)

\* faulty variant: without a deadline, on track only while the value grows
OnTrackOnlyWhileGrowing(goal, remaining, rate, hist, low) ==
    IF goal.target_date # {}
    THEN IF hist # <<>>
         THEN LET target_dt == The(goal.target_date)
                  months_remaining ==
                      (target_dt[1] - hist[1].year) * 12 + (target_dt[2] - hist[1].month)
              IN IF months_remaining > 0 /\ remaining.num > 0
                 THEN [on_track |-> FloatGe(rate, Frac(remaining.num,
                                                       remaining.den * months_remaining), low),
                       required |-> Frac(remaining.num, remaining.den * months_remaining)]
                 ELSE IF remaining.num <= 0
                      THEN [on_track |-> TRUE, required |-> Frac(0, 1)]
                      ELSE [on_track |-> FALSE, required |-> remaining]
         ELSE [on_track |-> FALSE, required |-> Frac(0, 1)]
    ELSE [on_track |-> rate.num > 0, required |-> Frac(0, 1)]

\* on_track and required_monthly_change before rounding
OnTrack(goal, remaining, rate, hist, low) ==
    IF goal.target_date # {}
    THEN IF hist # <<>>
         THEN LET target_dt == The(goal.target_date)
                  months_remaining ==
                      (target_dt[1] - hist[1].year) * 12 + (target_dt[2] - hist[1].month)
              IN IF months_remaining > 0 /\ remaining.num > 0
                 THEN [on_track |-> FloatGe(rate, Frac(remaining.num,
                                                       remaining.den * months_remaining), low),
                       required |-> Frac(remaining.num, remaining.den * months_remaining)]
                 ELSE IF remaining.num <= 0
                      THEN [on_track |-> TRUE, required |-> Frac(0, 1)]
                      ELSE [on_track |-> FALSE, required |-> remaining]
         ELSE [on_track |-> FALSE, required |-> Frac(0, 1)]
    ELSE [on_track |-> rate.num > 0 \/ remaining.num <= 0, required |-> Frac(0, 1)]

\* calculate_goal_forecast.  forecast_date is the first of a month, or the
\* day the request is made (today) for a goal already reached.
calculate_goal_forecast(goal, current_value, hist, category_id, up, low) ==
    LET target == goal.target_value
        remaining == Frac(target * current_value.den - current_value.num,
                          current_value.den)
        current_monthly_change ==
            IF goal.goal_type = "net_worth_target"
            THEN calculate_monthly_change_rate(hist, "quarter").rate
            ELSE IF goal.goal_type = "category_target" /\ category_id # {}
            THEN _calculate_category_change_rate(hist, The(category_id))
            ELSE IF goal.goal_type \in {"category_monthly", "category_rate"}
            THEN current_value
            ELSE Frac(0, 1)
        reaching == current_monthly_change.num > 0 /\ remaining.num > 0
        months_until_target ==
            IF reaching THEN {MonthsUntil(remaining, current_monthly_change, low)}
            ELSE IF remaining.num <= 0 THEN {0}
            ELSE {}
        forecast_date ==
            IF reaching
            THEN IF hist # <<>>
                 THEN LET date == CarryMonths(hist[1].month + The(months_until_target),
                                              hist[1].year)
                      IN {[today |-> FALSE, year |-> date[1], month |-> date[2]]}
                 ELSE {}
            ELSE IF remaining.num <= 0 THEN {[today |-> TRUE, year |-> 0, month |-> 0]}
            ELSE {}
        tracking == OnTrack(goal, remaining, current_monthly_change, hist, low)
    IN [forecast_date |-> forecast_date,
        months_until_target |-> months_until_target,
        on_track |-> tracking.on_track,
        required_monthly_change |->
            Round(tracking.required.num, tracking.required.den, up),
        current_monthly_change |->
            Round(current_monthly_change.num, current_monthly_change.den, up)]

\* faulty variant: the floor at 0 without the cap at 100
FloorOnly(pct) ==
    IF FracLe(Frac(0, 1), pct) THEN pct ELSE Frac(0, 1)

\* faulty variant: the cap at 100 without the floor at 0
CapOnly(pct) ==
    IF FracLe(pct, Frac(100, 1)) THEN pct ELSE Frac(100, 1)

\* min(progress_pct, 100.0) then max(progress_pct, 0.0)
ClampPercentage(pct) ==
    LET capped == IF FracLe(pct, Frac(100, 1)) THEN pct ELSE Frac(100, 1)
    IN IF FracLe(Frac(0, 1), capped) THEN capped ELSE Frac(0, 1)

\* faulty variant: achieved at or above the target for every goal
AchievedAtOrAbove(is_liability_goal, current_value, target) ==
    FracLe(Frac(target, 1), current_value)

\* current_value <= target for a liability goal, current_value >= target
\* for every other
IsAchieved(is_liability_goal, current_value, target) ==
    IF is_liability_goal THEN FracLe(current_value, Frac(target, 1))
    ELSE FracLe(Frac(target, 1), current_value)

_calculate_goal_progress(goal, hist, net_income, up, low) ==
    LET current_value == CurrentValue(goal, hist, net_income)
        target == goal.target_value
        is_liability_goal == /\ goal.goal_type = "category_target"
                             /\ GoalIsLiability(goal)
                             /\ goal.starting_value # {}
        starting == The(goal.starting_value)
        progress_pct ==
            IF is_liability_goal
            THEN IF starting > target
                 THEN Frac((starting * current_value.den - current_value.num) * 100,
                           current_value.den * (starting - target))
                 ELSE IF starting = target THEN Frac(100, 1)
                 ELSE Frac(0, 1)
            ELSE IF target > 0
                 THEN Frac(current_value.num * 100, current_value.den * target)
                 ELSE IF target = 0 /\ current_value.num >= 0 THEN Frac(100, 1)
                 ELSE Frac(0, 1)
        is_achieved == IsAchieved(is_liability_goal, current_value, target)
        clamped == ClampPercentage(progress_pct)
        forecast_info ==
            IF goal.goal_type \in {"net_worth_target", "category_target"}
            THEN {calculate_goal_forecast(goal, current_value, hist, goal.category_id,
                                          up, low)}
            ELSE {}
    IN [current_value |-> current_value,
        target_value |-> target,
        progress_percentage |-> Round(clamped.num * 100, clamped.den, up),
        is_achieved |-> is_achieved,
        forecast |-> forecast_info]

\* ------------------------------------------- routes/goals.py: the goals table
VALID_GOAL_TYPES ==
    {"net_worth_target", "category_target", "category_monthly", "category_rate"}

VALID_TRACKING_PERIODS == {"month", "quarter", "half_year", "year"}

\* a key of the request body: {} when the body lacks it, {{}} when it is
\* null, {{v}} when it carries v
Absent == {}

Null == {{}}

Val(v) == {{v}}

Value(field) == The(The(field))

\* datetime.fromisoformat accepts the date: dates are <<year, month>>
ValidIsoDate(date) == date[2] \in 1..12

\* the row Goal(...) stores; the name is left out, every name tried is valid
Goal(goal_type, target_value, category_id, tracking_period, target_date, starting_value, is_active) ==
    [goal_type |-> goal_type, target_value |-> target_value,
     category_id |-> category_id, tracking_period |-> tracking_period,
     target_date |-> target_date, starting_value |-> starting_value,
     is_active |-> is_active]

\* the starting value create_goal captures: for a category_target goal on a
\* liability category, the amount of the category's first entry in the
\* latest snapshot, as stored
StartingValue(goal_type, category_id) ==
    IF goal_type = "category_target" /\ category_id # {}
       /\ GroupOf(The(category_id)).group_type = "liability"
       /\ snapshots # <<>>
    THEN LET latest == NewestFirst(snapshots, DOMAIN snapshots)[1]
             ks == {k \in DOMAIN latest.entries :
                      latest.entries[k].category_id = The(category_id)}
         IN IF ks = {} THEN {}
            ELSE {latest.entries[CHOOSE k \in ks : \A j \in ks : k <= j].amount}
    ELSE {}

\* the status create_goal answers with: the validations in their order
CreateGoalStatus(data) ==
    IF data.goal_type = Absent \/ data.target_value = Absent THEN 400
    ELSE IF data.goal_type = Null \/ Value(data.goal_type) \notin VALID_GOAL_TYPES THEN 400
    ELSE IF Value(data.goal_type) = "category_rate"
            /\ (Value(data.target_value) < 0 \/ Value(data.target_value) > 10000)
         THEN 400
    ELSE IF Value(data.goal_type) \in {"category_target", "category_monthly", "category_rate"}
            /\ (data.category_id = Absent \/ data.category_id = Null)
         THEN 400
    ELSE IF Value(data.goal_type) \in {"category_target", "category_monthly", "category_rate"}
            /\ Value(data.category_id) \notin DOMAIN categories
         THEN 404
    ELSE IF Value(data.goal_type) \in {"category_monthly", "category_rate"}
            /\ (data.tracking_period = Absent \/ data.tracking_period = Null)
         THEN 400
    ELSE IF Value(data.goal_type) \in {"category_monthly", "category_rate"}
            /\ Value(data.tracking_period) \notin VALID_TRACKING_PERIODS
         THEN 400
    ELSE IF data.target_date \notin {Absent, Null} /\ ~ValidIsoDate(Value(data.target_date))
         THEN 400
    ELSE 201

\* the row create_goal stores when every validation passed
CreatedGoal(data) ==
    LET goal_type == Value(data.goal_type)
        category_id ==
            IF goal_type \in {"category_target", "category_monthly", "category_rate"}
            THEN The(data.category_id) ELSE {}
        tracking_period ==
            IF goal_type \in {"category_monthly", "category_rate"}
            THEN The(data.tracking_period) ELSE {}
        target_date ==
            IF data.target_date \notin {Absent, Null} THEN The(data.target_date) ELSE {}
    IN Goal(goal_type, Value(data.target_value), category_id, tracking_period,
            target_date, StartingValue(goal_type, category_id),
            IF data.is_active = Absent THEN TRUE
            ELSE data.is_active # Null /\ Value(data.is_active))

\* POST /api/goals
create_goal(data) ==
    LET status == CreateGoalStatus(data)
        id == Cardinality(DOMAIN goals) + 1
    IN /\ IF status # 201
          THEN /\ resp' = Rejected(status)
               /\ UNCHANGED goals
          ELSE /\ id \in GoalIds
               /\ goals' = Put(goals, id, CreatedGoal(data))
               /\ resp' = Response("create_goal", 201, id)
       /\ UNCHANGED <<groups, categories, snapshots, nextSnapshotId, settings, database, sessions,
                      income_items, catalogEdits>>

\* the status update_goal answers with: every key of the body is validated
\* in turn, and the first that fails ends the request
UpdateGoalStatus(id, data) ==
    IF id \notin DOMAIN goals THEN 404
    ELSE IF \A k \in DOMAIN data : data[k] = Absent THEN 400
    ELSE IF data.goal_type # Absent
            /\ (data.goal_type = Null \/ Value(data.goal_type) \notin VALID_GOAL_TYPES)
         THEN 400
    ELSE IF data.target_value # Absent
            /\ (IF data.goal_type # Absent THEN Value(data.goal_type)
                ELSE goals[id].goal_type) = "category_rate"
            /\ (Value(data.target_value) < 0 \/ Value(data.target_value) > 10000)
         THEN 400
    ELSE IF data.category_id \notin {Absent, Null}
            /\ Value(data.category_id) \notin DOMAIN categories
         THEN 404
    ELSE IF data.tracking_period \notin {Absent, Null}
            /\ Value(data.tracking_period) \notin VALID_TRACKING_PERIODS
         THEN 400
    ELSE IF data.target_date \notin {Absent, Null} /\ ~ValidIsoDate(Value(data.target_date))
         THEN 400
    ELSE 200

\* the row after every key of the body was applied
UpdatedGoal(goal, data) ==
    [goal EXCEPT
        !.goal_type = IF data.goal_type # Absent THEN Value(data.goal_type) ELSE @,
        !.target_value = IF data.target_value # Absent THEN Value(data.target_value) ELSE @,
        !.category_id = IF data.category_id # Absent THEN The(data.category_id) ELSE @,
        !.tracking_period =
            IF data.tracking_period # Absent THEN The(data.tracking_period) ELSE @,
        !.target_date = IF data.target_date # Absent THEN The(data.target_date) ELSE @,
        !.is_active = IF data.is_active # Absent
                      THEN data.is_active # Null /\ Value(data.is_active) ELSE @]

\* PUT /api/goals/<id>: the row is changed key by key and committed at the
\* end; a request refused on the way leaves the session without a commit,
\* and the session is discarded with the request
update_goal(id, data) ==
    LET status == UpdateGoalStatus(id, data)
    IN /\ IF status # 200
          THEN /\ resp' = Rejected(status)
               /\ UNCHANGED goals
          ELSE /\ goals' = [goals EXCEPT ![id] = UpdatedGoal(goals[id], data)]
               /\ resp' = Response("update_goal", 200, id)
       /\ UNCHANGED <<groups, categories, snapshots, nextSnapshotId, settings, database, sessions,
                      income_items, catalogEdits>>

\* DELETE /api/goals/<id>
delete_goal(goal_id) ==
    /\ IF goal_id \notin DOMAIN goals
       THEN /\ resp' = Rejected(404)
            /\ UNCHANGED goals
       ELSE /\ goals' = Drop(goals, goal_id)
            /\ resp' = Response("delete_goal", 200, goal_id)
    /\ UNCHANGED <<groups, categories, snapshots, nextSnapshotId, settings, database, sessions,
                   income_items, catalogEdits>>

\* GET /api/goals/progress: a record for every active goal.  net_income is
\* the sum the records were computed with; the response does not carry it.
get_goals_progress(up, low) ==
    /\ LET active == {g \in DOMAIN goals : goals[g].is_active}
           hist == _get_snapshots_in_period(snapshots, 12)
           tax_pct == IF settings # {} THEN The(settings).tax_percentage
                      ELSE DEFAULT_TAX_PERCENTAGE
           net_income == _calculate_net_income(income_items, tax_pct)
       IN resp' = [op |-> "get_goals_progress", status |-> 200, id |-> 0,
                   net_income |-> net_income,
                   progress |->
                       [g \in active |->
                           [goal |-> goals[g]] @@
                           _calculate_goal_progress(goals[g], hist, net_income, up, low)]]
    /\ UNCHANGED <<groups, categories, snapshots, nextSnapshotId, catalogEdits, goals, settings, database, sessions,
                 income_items>>

\* ------------------------------------------------------------ migrations.py
\* the ids of the migrations of a release: the one of MIGRATIONS and the two
\* of the tests
MigrationIds == {"001_goals_v2", "001_test", "002_test"}

\* the lists MIGRATIONS may be: up to MaxMigrations ids, each at most once
MigrationLists ==
    UNION {{ms \in [1..n -> MigrationIds] : \A i, j \in 1..n : ms[i] = ms[j] => i = j} :
              n \in 0..MaxMigrations}

\* what may go wrong while a migration is applied
Failures == {"sql", "insert", "commit"}

\* faulty variant: the table is never read
AppliedNone(table) == {}

\* SELECT id FROM _migrations
_get_applied_migrations(table) == {id \in MigrationIds : id \in table}

\* faulty variant: the SQL is committed on its own, before the record
ApplyInTwoTransactions(migration_id, table, log, failure) ==
    IF failure = "sql"
    THEN [table |-> table, log |-> log, raised |-> TRUE]
    ELSE IF failure # "none"
    THEN [table |-> table, log |-> Append(log, migration_id), raised |-> TRUE]
    ELSE [table |-> table \cup {migration_id}, log |-> Append(log, migration_id),
          raised |-> FALSE]

\* the SQL of the migration and the INSERT of its record are executed and
\* committed together; when any of the three raises, the transaction is
\* rolled back and the exception raised again
_apply_migration(migration_id, table, log, failure) ==
    IF failure # "none"
    THEN [table |-> table, log |-> log, raised |-> TRUE]
    ELSE [table |-> table \cup {migration_id}, log |-> Append(log, migration_id),
          raised |-> FALSE]

\* the loop of run_migrations from the k-th migration on: applied is the set
\* read before the loop, the application of the fail_at-th migration meets
\* failure
RECURSIVE PendingFrom(_, _, _, _, _, _, _)
PendingFrom(k, applied, table, log, count, fail_at, failure) ==
    IF k > Len(MIGRATIONS)
    THEN [table |-> table, log |-> log, count |-> count, raised |-> FALSE, failed |-> {}]
    ELSE IF MIGRATIONS[k] \in applied
    THEN PendingFrom(k + 1, applied, table, log, count, fail_at, failure)
    ELSE LET r == _apply_migration(MIGRATIONS[k], table, log,
                                   IF k = fail_at THEN failure ELSE "none")
         IN IF r.raised
            THEN [table |-> r.table, log |-> r.log, count |-> count, raised |-> TRUE,
                  failed |-> {MIGRATIONS[k]}]
            ELSE PendingFrom(k + 1, applied, r.table, r.log, count + 1, fail_at, failure)

\* one call of run_migrations: it returns count or ends with the exception
\* of the migration that failed
run_migrations(fail_at, failure) ==
    /\ IF dialect # "postgresql"
       THEN /\ resp' = [op |-> "run_migrations", status |-> "returned", id |-> 0,
                        count |-> 0, failed |-> {}]
            /\ UNCHANGED <<_migrations, schema>>
       ELSE LET r == PendingFrom(1, _get_applied_migrations(_migrations), _migrations,
                                 schema, 0, fail_at, failure)
            IN /\ _migrations' = r.table
               /\ schema' = r.log
               /\ resp' = [op |-> "run_migrations",
                           status |-> IF r.raised THEN "raised" ELSE "returned",
                           id |-> 0, count |-> r.count, failed |-> r.failed]
    /\ UNCHANGED <<groups, categories, snapshots, nextSnapshotId, goals, settings,
                   income_items, catalogEdits, dialect, MIGRATIONS, sessions>>

\* ------------------------------------------------------------ specification
Init ==
    /\ groups = [g \in GroupIds |->
                   IF g = 1 THEN [group_type |-> "asset", name |-> "Cash"]
                   ELSE [group_type |-> "liability", name |-> "Loans"]]
    /\ categories = [c \in CategoryIds |-> [group_id |-> c, is_personal |-> TRUE]]
    /\ snapshots = <<>>
    /\ nextSnapshotId = 1
    /\ goals = <<>>
    /\ settings = {}
    /\ FreshDatabase("postgresql", <<"001_goals_v2">>)
    /\ income_items = <<>>
    /\ catalogEdits = 0
    /\ resp = Response("none", 0, 0)

SnapshotRequests(D) ==
    \/ \E d \in D, e \in EntryLists : create_snapshot(d[1], d[2], e)
    \/ \E id \in 1..MaxSnapshotId, d \in Opt(D), e \in Opt(EntryLists) :
          update_snapshot(id, d, e)
    \/ \E id \in 1..MaxSnapshotId : delete_snapshot(id)

\* the edits tried: group 2 becomes a second asset group called "Cash" or
\* a liability group again; a category changes its is_personal flag
CatalogRequests ==
    \/ \E e \in GroupEdits : update_group(2, e[1], e[2])
    \/ \E id \in CategoryIds, p \in BOOLEAN :
          update_category(id, categories[id].group_id, p)

\* the snapshot requests alone, over three months that include a year
\* boundary, an ordinary succession and a gap
Next == SnapshotRequests(DateInputs)

Spec == Init /\ [][Next]_vars

\* the snapshot requests over two adjacent months, interleaved with edits of
\* the groups and categories the entries refer to
NextCatalog == SnapshotRequests(CatalogDates) \/ CatalogRequests

SpecCatalog == Init /\ [][NextCatalog]_vars

DateOfIndex(idx) == <<(idx - 1) \div 12, ((idx - 1) % 12) + 1>>

HistoryMonths(n) ==
    {MonthIndex(FirstHistoryMonth[1], FirstHistoryMonth[2]) + k : k \in 0..n}

\* a snapshot of net worth a: one asset entry, one liability entry or none
HistorySnapshot(date, a) ==
    [NewSnapshot(date[1], date[2]) EXCEPT !.entries =
        IF a > 0 THEN <<[category_id |-> 1, amount |-> a]>>
        ELSE IF a < 0 THEN <<[category_id |-> 2, amount |-> a]>>
        ELSE <<>>]

\* the store after up to n snapshots with net worths from values were
\* created oldest first, the goals table holding stored; the settings and
\* income items are left open
HistoryStore(n, values, stored) ==
    /\ groups = [g \in GroupIds |->
                   IF g = 1 THEN [group_type |-> "asset", name |-> "Cash"]
                   ELSE [group_type |-> "liability", name |-> "Loans"]]
    /\ categories = [c \in CategoryIds |-> [group_id |-> c, is_personal |-> TRUE]]
    /\ \E S \in {T \in SUBSET HistoryMonths(n) : Cardinality(T) <= n} :
        \E f \in [S -> values] :
         LET month_of(i) == CHOOSE m \in S : Cardinality({x \in S : x <= m}) = i
             raw == [i \in 1..Cardinality(S) |->
                       HistorySnapshot(DateOfIndex(month_of(i)), f[month_of(i)])]
             first == [i \in DOMAIN raw |-> calculate_totals(raw[i], {})]
         IN /\ snapshots = [i \in DOMAIN raw |->
                              calculate_totals(raw[i],
                                  _get_previous_net_worth(first, raw[i].year, raw[i].month))]
            /\ nextSnapshotId = Cardinality(S) + 1
    /\ goals = stored
    /\ catalogEdits = 0
    /\ resp = Response("none", 0, 0)

InitHistory ==
    /\ HistoryStore(MaxHistory, NetWorthInputs, <<>>)
    /\ settings = {}
    /\ FreshDatabase("postgresql", <<"001_goals_v2">>)
    /\ income_items = <<>>

NextForecast ==
    \E period \in PeriodInputs, months_ahead \in MonthsAheadInputs, up \in BOOLEAN :
        get_forecast(period, months_ahead, up)

SpecForecast == InitHistory /\ [][NextForecast]_vars

\* the goals tried, each type with the fields its calculation reads
GoalInputs ==
    {Goal("net_worth_target", t, {}, {}, {}, {}, TRUE) : t \in TargetInputs}
    \cup {Goal("category_target", t, c, {}, {}, s, TRUE) :
            t \in TargetInputs, c \in Opt(CategoryIds), s \in Opt(StartingInputs)}
    \cup {Goal(g, t, c, p, {}, {}, TRUE) :
            g \in {"category_monthly", "category_rate"}, t \in TargetInputs,
            c \in Opt(CategoryIds), p \in Opt(TrackingInputs)}

\* a history of up to MaxGoalHistory snapshots and one stored goal, without
\* income or with one salary taxed at the default percentage
InitGoals ==
    \E goal \in GoalInputs :
        /\ HistoryStore(MaxGoalHistory, NetWorthInputs, <<goal>>)
        /\ settings = {}
        /\ FreshDatabase("postgresql", <<"001_goals_v2">>)
        /\ income_items \in {<<>>, <<[gross_amount |-> 4, is_taxed |-> TRUE,
                                      tax_percentage |-> {}, is_deduction |-> FALSE]>>}

NextGoal == \E up \in BOOLEAN, low \in BOOLEAN : get_goals_progress(up, low)

SpecGoal == InitGoals /\ [][NextGoal]_vars

\* a category_monthly goal over a history in which the debt takes several
\* magnitudes
InitMonthly ==
    \E c \in CategoryIds, p \in VALID_TRACKING_PERIODS :
        /\ HistoryStore(MaxGoalHistory, MonthlyInputs,
                        <<Goal("category_monthly", 2, {c}, {p}, {}, {}, TRUE)>>)
        /\ settings = {}
        /\ FreshDatabase("postgresql", <<"001_goals_v2">>)
        /\ income_items = <<>>

SpecMonthly == InitMonthly /\ [][NextGoal]_vars

\* a category_rate goal, a history, and the settings and income items that
\* decide the net income
InitRate ==
    \E c \in CategoryIds, p \in TrackingInputs, b \in SettingsInputs, items \in IncomeLists :
        /\ HistoryStore(MaxGoalHistory, NetWorthInputs,
                        <<Goal("category_rate", 2, {c}, {p}, {}, {}, TRUE)>>)
        /\ settings = b
        /\ FreshDatabase("postgresql", <<"001_goals_v2">>)
        /\ income_items = items

SpecRate == InitRate /\ [][NextGoal]_vars

\* the target goals tried, with a deadline that has passed, one ahead, or none
TargetGoalInputs ==
    {Goal("net_worth_target", t, {}, {}, d, {}, TRUE) :
        t \in ForecastTargetInputs, d \in Opt(TargetDateInputs)}
    \cup {Goal("category_target", t, {c}, {}, d, s, TRUE) :
            t \in ForecastTargetInputs, c \in CategoryIds, d \in Opt(TargetDateInputs),
            s \in Opt({-1})}

InitTarget ==
    \E goal \in TargetGoalInputs :
        /\ HistoryStore(MaxGoalHistory, NetWorthInputs, <<goal>>)
        /\ settings = {}
        /\ FreshDatabase("postgresql", <<"001_goals_v2">>)
        /\ income_items = <<>>

SpecTarget == InitTarget /\ [][NextGoal]_vars

\* a request body with the keys given and no others
GoalData(goal_type, target_value, category_id, tracking_period, target_date, is_active) ==
    [goal_type |-> goal_type, target_value |-> target_value,
     category_id |-> category_id, tracking_period |-> tracking_period,
     target_date |-> target_date, is_active |-> is_active]

\* the bodies POST /api/goals is tried with: every goal type and an unknown
\* one, a target within and beyond a percentage, a category that exists, one
\* that does not or none, a tracking period, an unknown one or none; and a
\* body without goal_type
CreateGoalInputs ==
    {GoalData(Val(g), Val(t), c, p, Absent, Absent) :
        g \in VALID_GOAL_TYPES \cup {"bogus"}, t \in RateTargetInputs,
        c \in {Absent, Val(1), Val(3)}, p \in {Absent, Val("quarter"), Val("weekly")}}
    \cup {GoalData(Absent, Val(t), Absent, Absent, Absent, Absent) : t \in RateTargetInputs}

\* the bodies PUT /api/goals/<id> is tried with: one key each, goal_type
\* together with target_value, and the empty body
UpdateGoalInputs ==
    {GoalData(Absent, Absent, Absent, Absent, Absent, Absent)}
    \cup {GoalData(Val(g), t, Absent, Absent, Absent, Absent) :
            g \in VALID_GOAL_TYPES \cup {"bogus"},
            t \in {Absent} \cup {Val(v) : v \in RateTargetInputs}}
    \cup {GoalData(Absent, Val(t), Absent, Absent, Absent, Absent) : t \in RateTargetInputs}
    \cup {GoalData(Absent, Absent, c, Absent, Absent, Absent) : c \in {Null, Val(1), Val(3)}}
    \cup {GoalData(Absent, Absent, Absent, p, Absent, Absent) :
            p \in {Null, Val("quarter"), Val("weekly")}}
    \cup {GoalData(Absent, Absent, Absent, Absent, d, Absent) :
            d \in {Null, Val(<<2024, 3>>), Val(<<2024, 13>>)}}
    \cup {GoalData(Absent, Absent, Absent, Absent, Absent, Val(FALSE))}

\* goals are created and updated; id 0 is never a goal
NextGoalStore ==
    \/ \E data \in CreateGoalInputs : create_goal(data)
    \/ \E id \in GoalIds \cup {0}, data \in UpdateGoalInputs : update_goal(id, data)

SpecGoalStore == Init /\ [][NextGoalStore]_vars

\* the store after a first snapshot recorded category 2, a liability, at
\* -s and a category_target goal for it was then created with target t
PaydownStore(s, t) ==
    /\ groups = [g \in GroupIds |->
                   IF g = 1 THEN [group_type |-> "asset", name |-> "Cash"]
                   ELSE [group_type |-> "liability", name |-> "Loans"]]
    /\ categories = [c \in CategoryIds |-> [group_id |-> c, is_personal |-> TRUE]]
    /\ snapshots = <<calculate_totals(HistorySnapshot(FirstHistoryMonth, -s), {})>>
    /\ nextSnapshotId = 2
    /\ goals = <<CreatedGoal(GoalData(Val("category_target"), Val(t), Val(2),
                                      Absent, Absent, Absent))>>
    /\ settings = {}
    /\ FreshDatabase("postgresql", <<"001_goals_v2">>)
    /\ income_items = <<>>
    /\ catalogEdits = 0
    /\ resp = Response("create_goal", 201, 1)

InitPaydown == \E s \in DebtInputs, t \in PaydownTargetInputs : PaydownStore(s, t)

\* later months are recorded and the progress is read
NextPaydown ==
    \/ \E d \in Dates, e \in EntryLists : create_snapshot(d[1], d[2], e)
    \/ \E up \in BOOLEAN, low \in BOOLEAN : get_goals_progress(up, low)

SpecPaydown == InitPaydown /\ [][NextPaydown]_vars

\* the store of Init on either engine
InitRefs ==
    /\ groups = [g \in GroupIds |->
                   IF g = 1 THEN [group_type |-> "asset", name |-> "Cash"]
                   ELSE [group_type |-> "liability", name |-> "Loans"]]
    /\ categories = [c \in CategoryIds |-> [group_id |-> c, is_personal |-> TRUE]]
    /\ snapshots = <<>>
    /\ nextSnapshotId = 1
    /\ goals = <<>>
    /\ settings = {}
    /\ \E engine \in {"postgresql", "sqlite"} : FreshDatabase(engine, <<"001_goals_v2">>)
    /\ income_items = <<>>
    /\ catalogEdits = 0
    /\ resp = Response("none", 0, 0)

\* the bodies the goals are written with: a goal with or without a category,
\* naming category 1, 2 or 3
RefGoalInputs ==
    {GoalData(Val("category_target"), Val(5000), c, Absent, Absent, Absent) :
        c \in {Absent, Val(1), Val(2), Val(3)}}

\* the entries the snapshots are written with: one entry, of category 1 or 2
RefEntryLists == {<<e>> : e \in EntryInputs}

RefGoalUpdates ==
    {GoalData(Absent, Absent, c, Absent, Absent, Absent) :
        c \in {Null, Val(1), Val(2), Val(3)}}

\* every request that writes or deletes a category, an entry or a goal, and
\* the reset
NextRefs ==
    \/ \E e \in RefEntryLists : create_snapshot(2024, 1, e)
    \/ \E id \in 1..MaxSnapshotId, e \in RefEntryLists : update_snapshot(id, {}, {e})
    \/ \E id \in 1..MaxSnapshotId : delete_snapshot(id)
    \/ \E data \in RefGoalInputs : create_goal(data)
    \/ \E id \in GoalIds, data \in RefGoalUpdates : update_goal(id, data)
    \/ \E id \in GoalIds : delete_goal(id)
    \/ \E g \in GroupIds : create_category(g, TRUE)
    \/ \E c \in CategoryIds, g \in GroupIds : update_category(c, g, TRUE)
    \/ \E c \in CategoryIds : delete_category(c)
    \/ reset_networth

SpecRefs == InitRefs /\ [][NextRefs]_vars

\* the store of Init without category 2: the entries of the requests name a
\* category that exists and one that does not
InitRollback ==
    /\ groups = [g \in GroupIds |->
                   IF g = 1 THEN [group_type |-> "asset", name |-> "Cash"]
                   ELSE [group_type |-> "liability", name |-> "Loans"]]
    /\ categories = [c \in {1} |-> [group_id |-> c, is_personal |-> TRUE]]
    /\ snapshots = <<>>
    /\ nextSnapshotId = 1
    /\ goals = <<>>
    /\ settings = {}
    /\ FreshDatabase("postgresql", <<"001_goals_v2">>)
    /\ income_items = <<>>
    /\ catalogEdits = 0
    /\ resp = Response("none", 0, 0)

SpecRollback == InitRollback /\ [][Next]_vars

\* a new installation of any release on either engine
InitMigrations ==
    /\ groups = <<>>
    /\ categories = <<>>
    /\ snapshots = <<>>
    /\ nextSnapshotId = 1
    /\ goals = <<>>
    /\ settings = {}
    /\ income_items = <<>>
    /\ catalogEdits = 0
    /\ resp = Response("none", 0, 0)
    /\ \E engine \in {"postgresql", "sqlite"}, released \in MigrationLists :
          FreshDatabase(engine, released)

\* run_migrations is called again and again; fail_at 0 is a run in which
\* nothing fails
NextMigrations ==
    \E fail_at \in 0..MaxMigrations, failure \in Failures : run_migrations(fail_at, failure)

SpecMigrations == InitMigrations /\ [][NextMigrations]_vars

\* the entries of the concurrent requests: none or one entry
ConcurrentEntryLists == {<<>>} \cup {<<e>> : e \in EntryInputs}

\* the months M the concurrent update is tried for: before a year boundary
\* and within a year
ConcurrentMonths == {<<2023, 12>>, <<2024, 1>>}

\* snapshot 1 holds month M; a PUT for snapshot 1 and a POST for the month
\* after M have arrived, each with its entries, and neither has started
InitConcurrent ==
    \E date \in ConcurrentMonths, stored \in ConcurrentEntryLists,
       updated \in ConcurrentEntryLists, created \in ConcurrentEntryLists :
        /\ groups = [g \in GroupIds |->
                       IF g = 1 THEN [group_type |-> "asset", name |-> "Cash"]
                       ELSE [group_type |-> "liability", name |-> "Loans"]]
        /\ categories = [c \in CategoryIds |-> [group_id |-> c, is_personal |-> TRUE]]
        /\ snapshots = Put(<<>>, 1,
                           calculate_totals([NewSnapshot(date[1], date[2])
                                                EXCEPT !.entries = stored], {}))
        /\ nextSnapshotId = 2
        /\ goals = <<>>
        /\ settings = {}
        /\ income_items = <<>>
        /\ catalogEdits = 0
        /\ resp = Response("create_snapshot", 201, 1)
        /\ dialect = "postgresql"
        /\ MIGRATIONS = <<"001_goals_v2">>
        /\ _migrations = {}
        /\ schema = <<>>
        /\ sessions = [update |-> [pc |-> "start", id |-> 1, date |-> date,
                                   entries |-> updated, written |-> <<>>],
                       create |-> [pc |-> "start", id |-> 0,
                                   date |-> NextDate(date[1], date[2]),
                                   entries |-> created, written |-> <<>>]]

\* the steps of the two requests in any order
NextConcurrent ==
    \/ update_snapshot_entries
    \/ update_snapshot_recalculate
    \/ update_snapshot_commit
    \/ create_snapshot_insert
    \/ create_snapshot_totals
    \/ create_snapshot_commit

SpecConcurrent == InitConcurrent /\ [][NextConcurrent]_vars

\* ================================================================== claims
RECURSIVE SumFn(_)
SumFn(f) ==
    IF DOMAIN f = {} THEN 0
    ELSE LET x == CHOOSE y \in DOMAIN f : TRUE
         IN f[x] + SumFn([y \in DOMAIN f \ {x} |-> f[y]])

AmountsOf(entries) == [k \in DOMAIN entries |-> entries[k].amount]

TypeOfEntry(e) == groups[categories[e.category_id].group_id].group_type

PersonalEntry(e) == categories[e.category_id].is_personal

AssetSum(snap) ==
    SumSeq(AmountsOf(SelectSeq(snap.entries, LAMBDA e : TypeOfEntry(e) = "asset")))

LiabilitySum(snap) ==
    SumSeq(AmountsOf(SelectSeq(snap.entries, LAMBDA e : TypeOfEntry(e) = "liability")))

\* the snapshots whose totals the last request calculated: the one created
\* or updated and, after an update, the one of the following month
Written ==
    IF resp.op = "create_snapshot" THEN {resp.id}
    ELSE IF resp.op = "update_snapshot"
    THEN {resp.id} \cup
         SnapshotIdsAt(snapshots,
                       NextDate(snapshots[resp.id].year, snapshots[resp.id].month)[1],
                       NextDate(snapshots[resp.id].year, snapshots[resp.id].month)[2])
    ELSE {}

SuccessorsOf(i) ==
    {j \in DOMAIN snapshots :
        snapshots[j].year * 12 + snapshots[j].month
            = snapshots[i].year * 12 + snapshots[i].month + 1}

PredecessorsOf(i) ==
    {j \in DOMAIN snapshots :
        snapshots[j].year * 12 + snapshots[j].month + 1
            = snapshots[i].year * 12 + snapshots[i].month}

\* ---- C1: at most one snapshot per (year, month); a create or a move
\* succeeds only onto a (year, month) no other snapshot holds, and a rejected
\* request, the 409 of a conflict included, stores nothing.
UniqueYearMonth ==
    \A i, j \in DOMAIN snapshots :
        (snapshots[i].year = snapshots[j].year /\ snapshots[i].month = snapshots[j].month)
            => i = j

ConflictRefused ==
    /\ resp'.op = "rejected" => snapshots' = snapshots
    /\ (resp'.op = "create_snapshot" /\ resp'.status = 201) =>
         /\ DOMAIN snapshots' = DOMAIN snapshots \cup {resp'.id}
         /\ SnapshotIdsAt(snapshots, snapshots'[resp'.id].year,
                          snapshots'[resp'.id].month) = {}
    /\ (resp'.op = "update_snapshot" /\ resp'.status = 200) =>
         /\ DOMAIN snapshots' = DOMAIN snapshots
         /\ SnapshotIdsAt(snapshots, snapshots'[resp'.id].year,
                          snapshots'[resp'.id].month) \ {resp'.id} = {}

C1_OneSnapshotPerMonth == [](UniqueYearMonth) /\ [][ConflictRefused]_vars

C1_Witness ==
    /\ resp.status = 409
    /\ Cardinality(DOMAIN snapshots) = 2

\* ---- C2: every stored snapshot's change_from_previous is its net worth
\* minus that of the snapshot of the month before, or 0 when there is none.
C2_ChangeMatchesPredecessor ==
    \A i \in DOMAIN snapshots :
        snapshots[i].change_from_previous =
            IF PredecessorsOf(i) # {}
            THEN snapshots[i].net_worth
                   - snapshots[CHOOSE j \in PredecessorsOf(i) : TRUE].net_worth
            ELSE 0

\* ---- C3: after update_snapshot of month M, the snapshot of month M+1 (if
\* any) has change_from_previous = its net worth - the updated net worth of M.
C3_UpdateRecalculatesSuccessor ==
    (resp.op = "update_snapshot" /\ resp.status = 200) =>
        \A j \in SuccessorsOf(resp.id) :
            snapshots[j].change_from_previous =
                snapshots[j].net_worth - snapshots[resp.id].net_worth

C3_Witness ==
    /\ resp.op = "update_snapshot"
    /\ resp.replaced
    /\ snapshots[resp.id].month = 12
    /\ snapshots[resp.id].net_worth # 0
    /\ SuccessorsOf(resp.id) # {}
    /\ \A j \in SuccessorsOf(resp.id) : snapshots[j].net_worth # 0

\* ---- C4: in every state every snapshot has net_worth =
\* total_assets + total_liabilities, total_assets the sum of its entries in
\* asset groups, total_liabilities the sum of its entries in liability
\* groups, all three 0 without entries.
SumsAreCurrent(i) ==
    /\ snapshots[i].total_assets = AssetSum(snapshots[i])
    /\ snapshots[i].total_liabilities = LiabilitySum(snapshots[i])

NetWorthAddsUp(i) ==
    /\ snapshots[i].net_worth
         = snapshots[i].total_assets + snapshots[i].total_liabilities
    /\ snapshots[i].entries = <<>> =>
         /\ snapshots[i].total_assets = 0
         /\ snapshots[i].total_liabilities = 0
         /\ snapshots[i].net_worth = 0

C4_TotalsAlwaysCurrent ==
    \A i \in DOMAIN snapshots : NetWorthAddsUp(i) /\ SumsAreCurrent(i)

\* ---- C5: in the representation of a snapshot just written, by_group has
\* only asset groups and its values add up to the snapshot's total_assets.
C5_ByGroupSumsToAssets ==
    \A i \in Written \cap {resp.id} :
        /\ DOMAIN by_group(snapshots[i]) \subseteq
             {groups[g].name : g \in {h \in DOMAIN groups : groups[h].group_type = "asset"}}
        /\ SumFn(by_group(snapshots[i])) = snapshots[i].total_assets

\* ---- C6: personal_wealth is the sum over personal entries of either kind,
\* company_wealth the sum over non-personal asset entries, and net_worth =
\* personal_wealth + company_wealth + the non-personal liability amounts.
CompanyLiabilitySum(snap) ==
    SumSeq(AmountsOf(SelectSeq(snap.entries,
        LAMBDA e : TypeOfEntry(e) = "liability" /\ ~PersonalEntry(e))))

C6_WealthSplit ==
    \A i \in Written :
        /\ snapshots[i].personal_wealth
             = SumSeq(AmountsOf(SelectSeq(snapshots[i].entries, PersonalEntry)))
        /\ snapshots[i].company_wealth
             = SumSeq(AmountsOf(SelectSeq(snapshots[i].entries,
                   LAMBDA e : TypeOfEntry(e) = "asset" /\ ~PersonalEntry(e))))
        /\ snapshots[i].net_worth
             = snapshots[i].personal_wealth + snapshots[i].company_wealth
                 + CompanyLiabilitySum(snapshots[i])

C6_Witness ==
    /\ resp.op = "create_snapshot"
    /\ CompanyLiabilitySum(snapshots[resp.id]) # 0
    /\ snapshots[resp.id].personal_wealth # 0
    /\ snapshots[resp.id].company_wealth = 0

\* the forecast's input as the claims see it: the stored snapshots, newest
\* first, and the mean of the first p differences of adjacent list elements
History == NewestFirst(snapshots, DOMAIN snapshots)

WindowMonths(period) ==
    IF period = "month" THEN 1
    ELSE IF period = "quarter" THEN 3
    ELSE IF period = "half_year" THEN 6
    ELSE 12

PointsExpected(period) ==
    IF Len(History) < 2 THEN 0
    ELSE IF WindowMonths(period) < Len(History) - 1 THEN WindowMonths(period)
    ELSE Len(History) - 1

SumOfDifferences(p) ==
    SumFn([i \in 0..(p - 1) |-> History[i + 1].net_worth - History[i + 2].net_worth])

\* ---- C7: calculate_monthly_change_rate returns rate 0 and points_used 0
\* for fewer than two snapshots; otherwise points_used = min(w, n - 1) and
\* rate = the mean of the first points_used differences of list neighbours.
C7_RateIsMeanOverWindow ==
    resp.op = "get_forecast" =>
        LET p == PointsExpected(resp.forecast.period)
        IN /\ resp.trend.points = p
           /\ resp.trend.rate.den > 0
           /\ IF p = 0 THEN resp.trend.rate.num = 0
              ELSE resp.trend.rate.num * p = resp.trend.rate.den * SumOfDifferences(p)

C7_Witness ==
    /\ resp.op = "get_forecast"
    /\ resp.forecast.period = "quarter"
    /\ Len(History) = 5
    /\ resp.trend.points = 3
    /\ resp.trend.rate.num # 0
    /\ MonthIndex(History[1].year, History[1].month)
         > MonthIndex(History[2].year, History[2].month) + 1

C9_ProjectionDates ==
    resp.op = "get_forecast" =>
        IF DOMAIN snapshots = {} THEN resp.forecast.projections = <<>>
        ELSE /\ DOMAIN resp.forecast.projections = 1..resp.forecast.months_ahead
             /\ \A i \in DOMAIN resp.forecast.projections :
                  /\ resp.forecast.projections[i].month \in 1..12
                  /\ resp.forecast.projections[i].year * 12
                       + resp.forecast.projections[i].month
                       = History[1].year * 12 + History[1].month + i

C9_Witness ==
    /\ resp.op = "get_forecast"
    /\ Len(History) = 1
    /\ History[1].month = 12
    /\ resp.forecast.months_ahead = 14
    /\ resp.forecast.projections[14].year = History[1].year + 2
    /\ resp.forecast.projections[14].month = 2

\* ---- C10: whatever the goal, the history and the net income, the
\* progress_percentage of a goal-progress record lies between 0 and 100.
C10_ProgressWithinBounds ==
    resp.op = "get_goals_progress" =>
        \A g \in DOMAIN resp.progress :
            /\ resp.progress[g].progress_percentage >= 0
            /\ resp.progress[g].progress_percentage <= 10000

C10_Witness ==
    /\ resp.op = "get_goals_progress"
    /\ \E g \in DOMAIN resp.progress :
         /\ resp.progress[g].goal.goal_type = "net_worth_target"
         /\ resp.progress[g].current_value.num < 0
         /\ resp.progress[g].target_value > 0
         /\ resp.progress[g].progress_percentage = 0

\* C11: in every goal-progress record is_achieved says that the reported
\* current_value is at least the reported target_value, except for a
\* category_target goal on a liability category with a starting_value, where
\* it says that current_value is at most target_value.
PaydownGoal(goal) ==
    /\ goal.goal_type = "category_target"
    /\ goal.category_id # {}
    /\ groups[categories[The(goal.category_id)].group_id].group_type = "liability"
    /\ goal.starting_value # {}

C11_AchievementMatchesValues ==
    resp.op = "get_goals_progress" =>
        \A g \in DOMAIN resp.progress :
            LET r == resp.progress[g]
                cur == r.current_value
            IN r.is_achieved =
                 IF PaydownGoal(r.goal)
                 THEN cur.num <= r.target_value * cur.den
                 ELSE cur.num >= r.target_value * cur.den

\* a paydown goal reported as achieved strictly below its target
C11_Witness ==
    /\ resp.op = "get_goals_progress"
    /\ \E g \in DOMAIN resp.progress :
          LET r == resp.progress[g]
          IN /\ PaydownGoal(r.goal)
             /\ r.is_achieved
             /\ r.current_value.num < r.target_value * r.current_value.den

\* C12: a category_target goal on a liability category, created while the
\* latest snapshot recorded the debt at magnitude S with a target T,
\* 0 <= T < S, reports (S - C) / (S - T) * 100 clamped to [0, 100] as its
\* progress_percentage whenever the latest snapshot records magnitude C.
DebtAtCreation ==
    Abs(_get_category_amount_in_snapshot(
            snapshots[CHOOSE i \in DOMAIN snapshots :
                         <<snapshots[i].year, snapshots[i].month>> = FirstHistoryMonth],
            2))

DebtNow ==
    Abs(_get_category_amount_in_snapshot(NewestFirst(snapshots, DOMAIN snapshots)[1], 2))

\* p is x / y percent, y > 0, clamped to [0, 100] and rounded to 2 decimals
IsClampedPercentage(p, x, y) ==
    IF x <= 0 THEN p = 0
    ELSE IF x >= y THEN p = 10000
    ELSE 2 * Abs(p * y - x * 10000) <= y

C12_PaydownProgress ==
    resp.op = "get_goals_progress" =>
        \A g \in DOMAIN resp.progress :
            LET r == resp.progress[g]
            IN (PaydownGoal(r.goal) /\ 0 <= r.goal.target_value
                  /\ r.goal.target_value < DebtAtCreation)
               => IsClampedPercentage(r.progress_percentage,
                                      DebtAtCreation - DebtNow,
                                      DebtAtCreation - r.goal.target_value)

\* C13: for a category_monthly goal with a category and a tracking period
\* of w months over n >= 2 snapshots, current_value is the mean of the first
\* min(w, n - 1) differences between neighbours of the newest-first history
\* in the category's stored signed amounts, a snapshot without an entry
\* counting as 0; with fewer than 2 snapshots it is 0.
SignedAmount(snap, c) ==
    IF \E k \in DOMAIN snap.entries : snap.entries[k].category_id = c
    THEN snap.entries[CHOOSE k \in DOMAIN snap.entries :
                         snap.entries[k].category_id = c].amount
    ELSE 0

SumOfCategoryDifferences(c, p) ==
    SumFn([i \in 0..(p - 1) |->
              SignedAmount(History[i + 1], c) - SignedAmount(History[i + 2], c)])

C13_MonthlyIsMeanOfSignedChanges ==
    resp.op = "get_goals_progress" =>
        \A g \in DOMAIN resp.progress :
            LET r == resp.progress[g]
                p == PointsExpected(The(r.goal.tracking_period))
                cur == r.current_value
            IN (r.goal.goal_type = "category_monthly" /\ r.goal.category_id # {}
                  /\ r.goal.tracking_period # {})
               => /\ cur.den > 0
                  /\ IF p = 0 THEN cur.num = 0
                     ELSE cur.num * p
                            = cur.den * SumOfCategoryDifferences(The(r.goal.category_id), p)

\* a debt that went from 3 to 1 within the latest month, tracked by month:
\* current_value is 2
C13_Witness ==
    /\ resp.op = "get_goals_progress"
    /\ Len(History) >= 2
    /\ SignedAmount(History[2], 2) = -3
    /\ SignedAmount(History[1], 2) = -1
    /\ \E g \in DOMAIN resp.progress :
          LET r == resp.progress[g]
          IN /\ r.goal.goal_type = "category_monthly"
             /\ r.goal.category_id = {2}
             /\ r.goal.tracking_period = {"month"}
             /\ r.current_value.num = 2 * r.current_value.den

\* C14: for a category_rate goal, current_value is the average monthly
\* change of the goal's category over the tracking period divided by the
\* net income, as a percentage, when the net income is positive and there
\* are at least 2 snapshots, and 0 otherwise; the net income is the sum of
\* calculate_net over all income items.
TaxPercentage ==
    IF settings = {} THEN DEFAULT_TAX_PERCENTAGE ELSE The(settings).tax_percentage

\* the sum of calculate_net over the income items, in ten-thousandths of a cent
SumOfNets ==
    SumFn([k \in DOMAIN income_items |->
              LET net == calculate_net(income_items[k], TaxPercentage)
              IN net.num * (10000 \div net.den)])

C14_RateIsShareOfNetIncome ==
    resp.op = "get_goals_progress" =>
        \A g \in DOMAIN resp.progress :
            LET r == resp.progress[g]
                p == PointsExpected(The(r.goal.tracking_period))
                cur == r.current_value
                net == Reduce(Frac(SumOfNets, 10000))
            IN (r.goal.goal_type = "category_rate" /\ r.goal.category_id # {}
                  /\ r.goal.tracking_period # {})
               => /\ cur.den > 0
                  /\ IF net.num <= 0 \/ p = 0 THEN cur.num = 0
                     ELSE cur.num * p * net.num
                            = cur.den * net.den * 10000
                                * SumOfCategoryDifferences(The(r.goal.category_id), p)

\* two income items, a positive net income and a rate that is not zero
C14_Witness ==
    /\ resp.op = "get_goals_progress"
    /\ Len(income_items) = 2
    /\ SumOfNets > 0
    /\ Len(History) >= 2
    /\ \E g \in DOMAIN resp.progress :
          /\ resp.progress[g].goal.goal_type = "category_rate"
          /\ resp.progress[g].current_value.num # 0

\* C15 (as stated): calculate_net takes the deduction rate off a deduction,
\* counts an untaxed item in full and taxes a taxed item at its own
\* tax_percentage when it has one, at the global default otherwise; the net
\* income is the sum over all items.
NetAtEffectiveRate(item) ==
    IF item.is_deduction
    THEN - item.gross_amount * (IF item.tax_percentage = {} THEN 0
                                ELSE The(item.tax_percentage))
    ELSE IF ~item.is_taxed THEN item.gross_amount * 10000
    ELSE item.gross_amount * (10000 - (IF item.tax_percentage = {} THEN TaxPercentage
                                       ELSE The(item.tax_percentage)))

C15_NetAtItemsOwnRate ==
    resp.op = "get_goals_progress" =>
        resp.net_income.num * 10000
          = resp.net_income.den
              * SumFn([k \in DOMAIN income_items |-> NetAtEffectiveRate(income_items[k])])

\* C15 (amended): a taxed item that is not a deduction is taxed at the
\* global default percentage whether or not it has a tax_percentage of its
\* own.
NetAtDefaultRate(item) ==
    IF item.is_deduction
    THEN - item.gross_amount * (IF item.tax_percentage = {} THEN 0
                                ELSE The(item.tax_percentage))
    ELSE IF ~item.is_taxed THEN item.gross_amount * 10000
    ELSE item.gross_amount * (10000 - TaxPercentage)

C15_NetAtDefaultRate ==
    resp.op = "get_goals_progress" =>
        resp.net_income.num * 10000
          = resp.net_income.den
              * SumFn([k \in DOMAIN income_items |-> NetAtDefaultRate(income_items[k])])

\* a net income computed from a taxed item with a rate of its own that
\* differs from the default in force
C15_Witness ==
    /\ resp.op = "get_goals_progress"
    /\ \E k \in DOMAIN income_items :
          /\ income_items[k].is_taxed /\ ~income_items[k].is_deduction
          /\ income_items[k].tax_percentage \notin {{}, {TaxPercentage}}
    /\ Len(income_items) = 2
    /\ resp.net_income.num > 0

\* the forecast's rate as the claims see it: the mean of the first
\* min(3, n - 1) differences between neighbours of the newest-first
\* history, in net worth for a net_worth_target goal and in the category's
\* signed amount for a category_target goal; <<numerator, denominator>>
RateOfGoal(goal) ==
    LET p == PointsExpected("quarter")
    IN IF p = 0 THEN <<0, 1>>
       ELSE IF goal.goal_type = "net_worth_target" THEN <<SumOfDifferences(p), p>>
       ELSE IF goal.goal_type = "category_target" /\ goal.category_id # {}
       THEN <<SumOfCategoryDifferences(The(goal.category_id), p), p>>
       ELSE <<0, 1>>

\* target_value - current_value of a progress record, as a quotient
RemainingOf(r) ==
    <<r.target_value * r.current_value.den - r.current_value.num, r.current_value.den>>

\* C16: in the forecast of a net_worth_target or category_target goal, with
\* remaining = target - current_value and rate = current_monthly_change:
\* months_until_target is floor(remaining / rate) + 1 and forecast_date the
\* first day of the month that many months after the latest snapshot when
\* both are positive; months_until_target is 0 when remaining <= 0; both
\* are null when rate <= 0 and remaining > 0.
C16_MonthsUntilTarget ==
    resp.op = "get_goals_progress" =>
        \A g \in DOMAIN resp.progress :
            LET r == resp.progress[g]
                f == The(r.forecast)
                rem == RemainingOf(r)
                rate == RateOfGoal(r.goal)
                months == (rem[1] * rate[2]) \div (rem[2] * rate[1]) + 1
            IN r.forecast # {} =>
                 IF rem[1] <= 0 THEN f.months_until_target = {0}
                 ELSE IF rate[1] <= 0
                 THEN f.months_until_target = {} /\ f.forecast_date = {}
                 ELSE /\ f.months_until_target = {months}
                      /\ LET date == DateOfIndex(MonthIndex(History[1].year,
                                                            History[1].month) + months)
                         IN f.forecast_date
                              = {[today |-> FALSE, year |-> date[1], month |-> date[2]]}

\* p is the quotient x / y, y > 0, rounded to 2 decimals
IsRounded(p, x, y) == 2 * Abs(p * y - x) <= y

\* C17: for a goal with a target_date, with months_remaining counted from
\* the latest snapshot's month to the target_date: on_track is true when
\* remaining <= 0; otherwise, when months_remaining > 0,
\* required_monthly_change is remaining / months_remaining and on_track
\* says that current_monthly_change is at least that; otherwise on_track is
\* false and required_monthly_change is remaining.  The amounts are read
\* up to the rounding of the record, and a rate equal to the required one
\* is left open.
C17_OnTrackWithDeadline ==
    resp.op = "get_goals_progress" =>
        \A g \in DOMAIN resp.progress :
            LET r == resp.progress[g]
                f == The(r.forecast)
                rem == RemainingOf(r)
                rate == RateOfGoal(r.goal)
                deadline == The(r.goal.target_date)
                months_remaining ==
                    MonthIndex(deadline[1], deadline[2])
                      - MonthIndex(History[1].year, History[1].month)
            IN (r.forecast # {} /\ r.goal.target_date # {}) =>
                 IF rem[1] <= 0 THEN f.on_track
                 ELSE IF History = <<>> THEN TRUE
                 ELSE IF months_remaining > 0
                 THEN /\ IsRounded(f.required_monthly_change, rem[1],
                                   rem[2] * months_remaining)
                      /\ \/ rate[1] * rem[2] * months_remaining = rem[1] * rate[2]
                         \/ f.on_track
                              = (rate[1] * rem[2] * months_remaining > rem[1] * rate[2])
                 ELSE /\ ~f.on_track
                      /\ IsRounded(f.required_monthly_change, rem[1], rem[2])

\* C18: for a goal without a target_date, on_track says that
\* current_monthly_change is positive or remaining <= 0, and
\* required_monthly_change is 0.
C18_OnTrackWithoutDeadline ==
    resp.op = "get_goals_progress" =>
        \A g \in DOMAIN resp.progress :
            LET r == resp.progress[g]
                f == The(r.forecast)
            IN (r.forecast # {} /\ r.goal.target_date = {}) =>
                 /\ f.on_track = (RateOfGoal(r.goal)[1] > 0 \/ RemainingOf(r)[1] <= 0)
                 /\ f.required_monthly_change = 0

\* a goal without a deadline that is on track because it is reached,
\* although its value is falling
C18_Witness ==
    /\ resp.op = "get_goals_progress"
    /\ \E g \in DOMAIN resp.progress :
          LET r == resp.progress[g]
          IN /\ r.forecast # {}
             /\ r.goal.target_date = {}
             /\ The(r.forecast).on_track
             /\ RateOfGoal(r.goal)[1] < 0
             /\ The(r.forecast).current_monthly_change < 0

\* C19: after any sequence of create_goal and update_goal requests every
\* stored goal has the fields its goal_type requires: a category_id for
\* category_target, category_monthly and category_rate, a valid
\* tracking_period for category_monthly and category_rate.
C19_RequiredFieldsStored ==
    \A g \in DOMAIN goals :
        /\ goals[g].goal_type \in {"category_target", "category_monthly", "category_rate"}
              => goals[g].category_id # {}
        /\ goals[g].goal_type \in {"category_monthly", "category_rate"}
              => /\ goals[g].tracking_period # {}
                 /\ The(goals[g].tracking_period) \in VALID_TRACKING_PERIODS

\* C20: after any sequence of create_goal and update_goal requests every
\* stored goal of type category_rate has a target_value from 0 to 100.
C20_RateTargetIsPercentage ==
    \A g \in DOMAIN goals :
        goals[g].goal_type = "category_rate"
          => (0 <= goals[g].target_value /\ goals[g].target_value <= 10000)

\* ---- C21: after any sequence of create_snapshot and update_snapshot
\* requests, those whose entries name one category more than once included,
\* every stored snapshot has at most one entry per category.
C21_OneEntryPerCategory ==
    \A i \in DOMAIN snapshots :
        \A k, j \in DOMAIN snapshots[i].entries :
            snapshots[i].entries[k].category_id = snapshots[i].entries[j].category_id
                => k = j

\* a request that named a category twice was refused while a snapshot with
\* two entries is stored
C21_Witness ==
    /\ resp.op = "rejected" /\ resp.status = 500
    /\ \E i \in DOMAIN snapshots : Len(snapshots[i].entries) = 2

\* ---- C22: after any sequence of category, snapshot and goal requests and
\* resets, every stored entry and every stored goal with a category_id
\* refers to a category that exists: delete_category is refused with 409
\* while an entry or a goal refers to the category.
Referenced(c) ==
    \/ \E i \in DOMAIN snapshots : \E k \in DOMAIN snapshots[i].entries :
          snapshots[i].entries[k].category_id = c
    \/ \E g \in DOMAIN goals : goals[g].category_id = {c}

ReferencesExist == \A c \in CategoryIds \cup {3} : Referenced(c) => c \in DOMAIN categories

DeleteRefused ==
    \A c \in CategoryIds :
        (delete_category(c) /\ c \in DOMAIN categories /\ Referenced(c))
            => (resp'.status = 409 /\ categories' = categories)

C22_ReferencesExist == [](ReferencesExist) /\ [][DeleteRefused]_vars

\* ---- C23: across successive calls of run_migrations on PostgreSQL every
\* migration of MIGRATIONS is applied at most once and in the order of the
\* list; a run that returns has applied exactly the migrations whose id was
\* not recorded in _migrations and returns their number; a run right after a
\* run that returned applies nothing and returns 0; on another engine a run
\* executes nothing and returns 0.
PositionOf(id) == CHOOSE k \in DOMAIN MIGRATIONS : MIGRATIONS[k] = id

IdsOf(s) == {s[i] : i \in DOMAIN s}

AppliedOnceInOrder ==
    /\ IdsOf(schema) \subseteq IdsOf(MIGRATIONS)
    /\ \A i, j \in DOMAIN schema : i < j => PositionOf(schema[i]) < PositionOf(schema[j])

Pending == SelectSeq(MIGRATIONS, LAMBDA id : id \notin _migrations)

RunAppliesPending ==
    (dialect = "postgresql" /\ resp'.status = "returned") =>
        /\ schema' = schema \o Pending
        /\ _migrations' = _migrations \cup IdsOf(Pending)
        /\ resp'.count = Len(Pending)

RunAfterSuccess ==
    (dialect = "postgresql" /\ resp.op = "run_migrations" /\ resp.status = "returned") =>
        /\ schema' = schema
        /\ resp'.status = "returned" /\ resp'.count = 0

SkippedElsewhere ==
    dialect # "postgresql" =>
        /\ UNCHANGED <<_migrations, schema>>
        /\ resp'.status = "returned" /\ resp'.count = 0

C23_EachMigrationOnce ==
    /\ [](AppliedOnceInOrder)
    /\ [][RunAppliesPending /\ RunAfterSuccess /\ SkippedElsewhere]_vars

\* a run that returned 2 after an earlier run had applied the first of three
\* migrations and failed at the second
C23_Witness ==
    /\ Len(MIGRATIONS) = 3 /\ schema = MIGRATIONS
    /\ resp.op = "run_migrations" /\ resp.status = "returned" /\ resp.count = 2

\* ---- C24: when the SQL of a migration, the INSERT of its record or the
\* commit fails, the migration is rolled back and its id not recorded, the
\* exception leaves run_migrations and no later migration is applied in that
\* run; an id is recorded only together with the commit of its SQL.
RecordedWithCommit == _migrations = IdsOf(schema)

FailureStopsRun ==
    resp'.status = "raised" =>
        LET failed == The(resp'.failed)
            before == SelectSeq(Pending, LAMBDA id : PositionOf(id) < PositionOf(failed))
        IN /\ failed \in IdsOf(Pending)
           /\ failed \notin _migrations'
           /\ schema' = schema \o before
           /\ _migrations' = _migrations \cup IdsOf(before)

C24_FailedMigrationRolledBack ==
    [](RecordedWithCommit) /\ [][FailureStopsRun]_vars

\* a run applied the first of three migrations and failed at the second
C24_Witness ==
    /\ Len(MIGRATIONS) = 3 /\ schema = <<MIGRATIONS[1]>>
    /\ _migrations = {MIGRATIONS[1]}
    /\ resp.status = "raised" /\ resp.failed = {MIGRATIONS[2]} /\ resp.count = 1

\* ---- C25: a create_snapshot or update_snapshot request answered with a
\* 4xx status (a validation failure, an unknown category, a month that is
\* taken, an unknown snapshot) leaves the stored snapshots and their entries
\* exactly as they were.
RefusedWritesNothing ==
    (resp'.op = "rejected" /\ resp'.status \in 400..499) => snapshots' = snapshots

C25_RefusedRequestStoresNothing == [][RefusedWritesNothing]_vars

\* a request was refused with 400 while two snapshots are stored
C25_Witness ==
    /\ Cardinality(DOMAIN snapshots) = 2
    /\ resp.op = "rejected" /\ resp.status = 400

\* ---- C26: a goal-progress record that reports is_achieved = true reports
\* progress_percentage = 100.
C26_AchievedMeansComplete ==
    resp.op = "get_goals_progress" =>
        \A g \in DOMAIN resp.progress :
            resp.progress[g].is_achieved => resp.progress[g].progress_percentage = 10000

\* C26 as amended: a record that reports is_achieved = true reports
\* progress_percentage = 100 when the target_value is not negative and, for a
\* paydown goal, the stored starting_value is not below the target_value.
C26_AchievedMeansCompleteFromZero ==
    resp.op = "get_goals_progress" =>
        \A g \in DOMAIN resp.progress :
            LET r == resp.progress[g]
            IN (/\ r.is_achieved
                /\ r.target_value >= 0
                /\ PaydownGoal(r.goal) => The(r.goal.starting_value) >= r.target_value)
                   => r.progress_percentage = 10000

\* an achieved paydown goal that started above its target, with debt left
C26_Witness ==
    /\ resp.op = "get_goals_progress"
    /\ \E g \in DOMAIN resp.progress :
          LET r == resp.progress[g]
          IN /\ r.is_achieved
             /\ r.progress_percentage = 10000
             /\ PaydownGoal(r.goal)
             /\ The(r.goal.starting_value) > r.target_value
             /\ r.current_value.num > 0

\* ---- C27: for every net_worth_target and category_target goal, on an asset
\* or a liability, with or without a starting_value, the forecast reports
\* months_until_target = 0 exactly when the record reports is_achieved = true.
C27_ZeroMonthsIffAchieved ==
    resp.op = "get_goals_progress" =>
        \A g \in DOMAIN resp.progress :
            LET r == resp.progress[g]
            IN r.goal.goal_type \in {"net_worth_target", "category_target"} =>
                 /\ r.forecast # {}
                 /\ (The(r.forecast).months_until_target = {0}) = r.is_achieved

\* ---- C28: for a goal with a target_date that is not reached yet
\* (remaining > 0) and whose deadline is months_remaining > 0 months after
\* the latest snapshot: when on_track is true, months_until_target is not
\* null and at most months_remaining.
MonthsRemaining(goal) ==
    MonthIndex(The(goal.target_date)[1], The(goal.target_date)[2])
        - MonthIndex(History[1].year, History[1].month)

\* the records C28 is about: x is how far months_until_target may exceed
\* months_remaining
ReachedByDeadline(x) ==
    resp.op = "get_goals_progress" =>
        \A g \in DOMAIN resp.progress :
            LET r == resp.progress[g]
                f == The(r.forecast)
            IN (/\ r.forecast # {} /\ r.goal.target_date # {} /\ History # <<>>
                /\ RemainingOf(r)[1] > 0
                /\ MonthsRemaining(r.goal) > 0
                /\ f.on_track)
                 => /\ f.months_until_target # {}
                    /\ The(f.months_until_target) <= MonthsRemaining(r.goal) + x

UpdateTouchesOnlySuccessorChange ==
    (resp'.op = "update_snapshot" /\ resp'.status = 200) =>
        /\ DOMAIN snapshots' = DOMAIN snapshots
        /\ \A i \in DOMAIN snapshots \ {resp'.id} :
              LET n == NextDate(snapshots'[resp'.id].year, snapshots'[resp'.id].month)
              IN IF <<snapshots[i].year, snapshots[i].month>> = n
                 THEN snapshots'[i] =
                        [snapshots[i] EXCEPT !.change_from_previous =
                                                 snapshots'[i].change_from_previous]
                 ELSE snapshots'[i] = snapshots[i]

C29_UpdateFrame == [][UpdateTouchesOnlySuccessorChange]_vars

\* ---- C30: when an update_snapshot of month M and a create_snapshot of
\* month M+1 run as separate transactions, in any interleaving of their
\* reads, writes and commits, then after both have committed the snapshot
\* of M+1 has change_from_previous = its net_worth minus the committed
\* net_worth of M.
C30_ConcurrentChangeIsCurrent ==
    (sessions # <<>> /\ sessions.update.pc = "done" /\ sessions.create.pc = "done") =>
        snapshots[sessions.create.id].change_from_previous
            = snapshots[sessions.create.id].net_worth
                - snapshots[sessions.update.id].net_worth

====
